---- MODULE Spec2Model ----
(***************************************************************************)
(* A model of RegoLab's editor core: the debounced lint pipeline of the    *)
(* policy editor (frontend/components/code-editor.tsx, app/page.tsx), the  *)
(* diagnostics mapping (backend regal.service.js and the editor's offset   *)
(* computation), the data context handed to the Rego editor, and the JSON  *)
(* schema builder (frontend/lib/data-context.ts).                          *)
(*                                                                         *)
(* Text is a sequence of one-character strings.  Absent JavaScript fields  *)
(* are absent record fields; a numeric field that the code reads through   *)
(* `x || 1` is 0 when it is absent (both are falsy).                       *)
(***************************************************************************)
EXTENDS Integers, Sequences, FiniteSets, TLC

VARIABLES
    \* ---- lint pipeline of one policy editor session
    now,              \* Date.now() in ms
    doc,              \* view.state.doc, the policy buffer
    docVer,           \* identity of the Text object held by view.state.doc
    lintTime,         \* lintPlugin.lintTime
    set,              \* lintPlugin.set
    timeout,          \* lintPlugin.timeout: due time of the pending timer, or NoTimer
    calls,            \* fetch('/api/lint') calls in flight
    nextCall,         \* number of calls issued so far
    markers,          \* diagnostics held by the editor (setDiagnostics)
    lintDiagnostics,  \* page state set through onLintDiagnostics
    hist,             \* history of the session, for stating the properties
    \* ---- diagnostics mapping on its own
    mapDoc,           \* the buffer the editor currently holds
    mapViolations,    \* violations reported by the linter process
    mapOut,           \* result of the backend and editor mapping
    \* ---- data context of the Rego editor
    inputBuf,         \* activePolicyContent.input
    dataBuf,          \* activePolicyContent.data
    settings,         \* editor settings that re-create the view
    viewField,        \* dataContextField of the current view
    \* ---- schema builder
    text,             \* the Data buffer being typed
    typed,            \* number of fragments typed into it
    dataContext,      \* page.tsx dataContext (useMemo)
    schemaOut,        \* result of parseJsonToSchema and the path resolver
    \* ---- path resolver and completion source asked on their own
    ask,              \* the question: a data context and a path, or the text before the cursor
    answer,           \* what getCompletionsForPath, getTooltipForPath or the completion source return
    \* ---- Rego grammar and style mapping
    tokens,           \* the token stream, or the syntax node and its ancestors
    tree,             \* what the parser, the brace classifier or the style mapping make of it
    \* ---- version management script (scripts/version.js)
    files,            \* the version each synchronized file holds
    run,              \* the outcome of the last run of the script
    \* ---- lint route of the backend (regal.service.js, policies.js)
    proc,             \* what the regal process does: exit code, stdout, stderr
    lint,             \* the request's progress: lintPolicy's result and the route's reply
    \* ---- evaluate route of the backend (data-sources.js)
    jsonc,            \* the Data text of the request body
    clean,            \* cleanData, what stripJsonComments made of it
    \* ---- GitHub publish route of the backend (data-sources.js)
    gh,               \* the repository at GitHub: objects created, the branch reference
    pub,              \* the handler of one POST /publish: its step, its blob requests, its reply
    \* ---- policy selection and loading in the page (page.tsx, files-list.tsx)
    selected,         \* PoliciesProvider selected, with the number of selections made
    loading,          \* loadPolicy calls in flight
    activePolicyContent, \* PoliciesProvider activePolicyContent: whose files it holds
    stored,           \* the files the backend stores for each policy
    \* ---- Firestore: the user's policies collection
    docs,             \* policy id -> document
    renamed,          \* the last renamePolicy call and the collection before it
    \* ---- backend: the policy storage on disk
    touched,          \* the request served last and the paths it read, wrote or removed
    \* ---- frontend: the Data panel of editor-panels.tsx
    dataPanel,        \* the Data buffer and how many pieces were typed into it
    inserted,         \* the last template insertion and the buffer before it
    \* ---- frontend: the shares collection of lib/share-service.ts
    dateNow,          \* Date.now() in hours, and how often the clock has moved
    shares,           \* share id -> document
    got               \* the last getShare call and its outcome

lintVars == <<now, doc, docVer, lintTime, set, timeout, calls, nextCall,
              markers, lintDiagnostics, hist>>
mapVars == <<mapDoc, mapViolations, mapOut>>
ctxVars == <<inputBuf, dataBuf, settings, viewField>>
schemaVars == <<text, typed, dataContext, schemaOut>>
askVars == <<ask, answer>>
parseVars == <<tokens, tree>>
verVars == <<files, run>>
regalVars == <<proc, lint>>
stripVars == <<jsonc, clean>>
pubVars == <<gh, pub>>
policyVars == <<selected, loading, activePolicyContent, stored>>
fsVars == <<docs, renamed>>
storeVars == <<touched>>
panelVars == <<dataPanel, inserted>>
shareVars == <<dateNow, shares, got>>
vars == <<lintVars, mapVars, ctxVars, schemaVars, askVars, parseVars, verVars, regalVars, stripVars, pubVars, policyVars, fsVars, storeVars, panelVars, shareVars>>

----------------------------------------------------------------------------
(* Text helpers *)

Min(a, b) == IF a < b THEN a ELSE b
Max(a, b) == IF a > b THEN a ELSE b

NL == "\n"
WhiteSpace == {" ", NL, "\t"}

RECURSIVE TrimStart(_)
TrimStart(s) ==
    IF s # <<>> /\ Head(s) \in WhiteSpace THEN TrimStart(Tail(s)) ELSE s

RECURSIVE TrimEnd(_)
TrimEnd(s) ==
    IF s # <<>> /\ s[Len(s)] \in WhiteSpace
    THEN TrimEnd(SubSeq(s, 1, Len(s) - 1))
    ELSE s

\* String.prototype.trim
Trim(s) == TrimEnd(TrimStart(s))

\* Text.lines: the number of lines of a document
DocLines(d) == 1 + Cardinality({i \in 1..Len(d) : d[i] = NL})

\* Text.line(n).from for 1 <= n <= DocLines(d): the offset of the line's first character
LineFrom(d, n) ==
    IF n = 1 THEN 0
    ELSE LET breaks == {i \in 1..Len(d) : d[i] = NL /\
                          Cardinality({j \in 1..i : d[j] = NL}) = n - 1}
         IN  CHOOSE i \in breaks : TRUE

----------------------------------------------------------------------------
(* Diagnostics mapping: backend mapToDiagnostics, then the editor's offsets *)

\* regal.service.js: const ignoredRules = ['directory-package-mismatch']
ignoredRules == {"directory-package-mismatch"}

IgnoreNothing(v) == TRUE

\* regal.service.js: .filter((v) => !ignoredRules.includes(v.title))
KeepViolation(v) == v.title \notin ignoredRules

Falsy1(n) == IF n = 0 THEN 1 ELSE n

\* regal.service.js: the .map((v) => {...}) body of mapToDiagnostics
ViolationToDiagnostic(v) ==
    LET row == Falsy1(v.row)
        col == Falsy1(v.col)
        textLength == Falsy1(v.textLen)
    IN  [from |-> [line |-> row, col |-> col],
         to |-> [line |-> row, col |-> col + textLength],
         severity |-> IF v.level = "error" THEN "error" ELSE "warning",
         message |-> IF v.description # "" THEN v.description
                     ELSE IF v.title # "" THEN v.title ELSE "Unknown violation",
         rule |-> v.title,
         category |-> v.category]

RECURSIVE SelectKept(_)
SelectKept(vs) ==
    IF vs = <<>> THEN <<>>
    ELSE IF KeepViolation(Head(vs))
         THEN <<Head(vs)>> \o SelectKept(Tail(vs))
         ELSE SelectKept(Tail(vs))

\* regal.service.js mapToDiagnostics
mapToDiagnostics(violations) ==
    LET kept == SelectKept(violations)
    IN  [i \in 1..Len(kept) |-> ViolationToDiagnostic(kept[i])]

\* code-editor.tsx: safeFromLine / safeToLine
SafeLine(line, d) == Min(Max(1, line), DocLines(d))

RangeToUnclamped(toPos, from, d) == Max(toPos, from + 1)
\* code-editor.tsx: const to = Math.min(Math.max(toPos, from + 1), view.state.doc.length)
RangeTo(toPos, from, d) == Min(Max(toPos, from + 1), Len(d))

\* code-editor.tsx: the body of result.diagnostics.map((d) => {...}), against the
\* buffer the view holds when the response is handled
CmDiagnostic(dg, d) ==
    LET safeFromLine == SafeLine(dg.from.line, d)
        safeToLine == SafeLine(dg.to.line, d)
        fromPos == LineFrom(d, safeFromLine) + Max(0, dg.from.col - 1)
        toPos == LineFrom(d, safeToLine) + Max(0, dg.to.col - 1)
        from == Min(fromPos, Len(d))
    IN  [from |-> from,
         to |-> RangeTo(toPos, from, d),
         fromLine |-> safeFromLine,
         toLine |-> safeToLine,
         severity |-> IF dg.severity = "error" THEN "error" ELSE "warning",
         message |-> dg.message]

CmDiagnostics(dgs, d) == [i \in 1..Len(dgs) |-> CmDiagnostic(dgs[i], d)]

----------------------------------------------------------------------------
(* The lint pipeline of one policy editor session.                           *)
(* createRegoLinter hands an async source and {delay: 750} to linter() of    *)
(* @codemirror/lint.  The plugin's scheduling (a timer armed on construction *)
(* and on a document change while none is armed, re-armed by run() while     *)
(* now < lintTime - 10, and a result applied only if the view still holds    *)
(* the Text object the run started from) is the library's; the source        *)
(* function, its early returns and its onLintDiagnostics calls are the       *)
(* repository's.                                                             *)

\* code-editor.tsx: delay: 750
LintDelay == 750
\* code-editor.tsx: doc.trim().length < 10
MinLintLength == 10

MaxTicks == 8
MaxEdits == 3
MaxCalls == 3

TimeStep == LintDelay \div 3
NoTimer == 0 - 1
NoCall == [snap |-> -1, at |-> -1]

DocShort == <<"p", "k", "g", " ", "a", "b", "c", "d", "e", " ", NL>>
DocOne == <<"p", "a", "c", "k", "a", "g", "e", " ", "a", "b">>
DocTwo == DocOne \o <<NL, "x", " ", ":", "=", " ", "1", NL>>
PolicyDocs == {<<>>, DocShort, DocOne, DocTwo}

VFmt == [title |-> "opa-fmt", category |-> "style", level |-> "error",
         description |-> "File should be formatted", row |-> 1, col |-> 1, textLen |-> 7]
VDir == [title |-> "directory-package-mismatch", category |-> "idiomatic",
         level |-> "error", description |-> "", row |-> 1, col |-> 9, textLen |-> 2]
VLate == [title |-> "use-assignment-operator", category |-> "style", level |-> "warning",
          description |-> "", row |-> 3, col |-> 5, textLen |-> 3]
LintViolationLists == {<<>>, <<VFmt>>, <<VDir, VLate>>}

\* Outcomes of one POST /api/lint as the source function sees them
LintOutcomes ==
    {[kind |-> k, violations |-> <<>>] : k \in {"http_error", "not_success", "throw"}}
    \cup {[kind |-> "ok", violations |-> vs] : vs \in LintViolationLists}

\* the text the view was created with
SnapshotStale == hist.initialDoc
\* code-editor.tsx: const doc = view.state.doc.toString() at the start of a lint run
SnapshotDoc == doc

TooShortUntrimmed(d) == d = <<>> \/ Len(d) < MinLintLength
\* code-editor.tsx: if (!doc || doc.trim().length < 10)
TooShort(d) == d = <<>> \/ Len(Trim(d)) < MinLintLength

\* A part of the model that a specification leaves at rest holds this value
AtRest == [done |-> FALSE]

\* The policy editor right after its view is constructed: the plugin's
\* constructor arms the first timer
InitLint ==
    /\ mapDoc = AtRest /\ mapViolations = AtRest /\ mapOut = AtRest
    /\ inputBuf = AtRest /\ dataBuf = AtRest /\ settings = AtRest /\ viewField = AtRest
    /\ text = AtRest /\ typed = AtRest /\ dataContext = AtRest /\ schemaOut = AtRest
    /\ ask = AtRest /\ answer = AtRest
    /\ tokens = AtRest /\ tree = AtRest
    /\ files = AtRest /\ run = AtRest
    /\ proc = AtRest /\ lint = AtRest
    /\ jsonc = AtRest /\ clean = AtRest
    /\ gh = AtRest /\ pub = AtRest
    /\ selected = AtRest /\ loading = AtRest /\ activePolicyContent = AtRest /\ stored = AtRest
    /\ docs = AtRest /\ renamed = AtRest
    /\ touched = AtRest
    /\ dataPanel = AtRest /\ inserted = AtRest
    /\ dateNow = AtRest /\ shares = AtRest /\ got = AtRest
    /\ now = 0
    /\ doc \in PolicyDocs
    /\ docVer = 0
    /\ lintTime = LintDelay
    /\ set = TRUE
    /\ timeout = LintDelay
    /\ calls = {}
    /\ nextCall = 0
    /\ markers = <<>>
    /\ lintDiagnostics = <<>>
    /\ hist = [initialDoc |-> doc, callsSinceEdit |-> 0, runsSinceEdit |-> 0, burstEdits |-> 0,
               lastEditTime |-> 0, lastCall |-> NoCall, lastPolicy |-> <<>>,
               lastIssuedAt |-> 0, lastEvent |-> "init", lastRespSnap |-> -1,
               panelFrom |-> NoCall, markersFrom |-> NoCall]

\* Time passes
Tick ==
    /\ now < MaxTicks * TimeStep
    /\ now' = now + TimeStep
    /\ UNCHANGED <<doc, docVer, lintTime, set, timeout, calls, nextCall,
                   markers, lintDiagnostics, hist>>
    /\ UNCHANGED <<mapVars, ctxVars, schemaVars, askVars, parseVars, verVars, regalVars, stripVars, pubVars, policyVars, fsVars, storeVars, panelVars, shareVars>>

\* A document change in the policy editor; lintPlugin.update re-arms the debounce
Edit(newDoc) ==
    /\ docVer < MaxEdits
    /\ doc' = newDoc
    /\ docVer' = docVer + 1
    /\ lintTime' = now + LintDelay
    /\ set' = TRUE
    /\ timeout' = IF set THEN timeout ELSE now + LintDelay
    /\ hist' = [hist EXCEPT !.callsSinceEdit = 0, !.runsSinceEdit = 0,
                            !.burstEdits = IF set THEN @ + 1 ELSE 1,
                            !.lastEditTime = now,
                            !.lastEvent = "edit"]
    /\ UNCHANGED <<now, calls, nextCall, markers, lintDiagnostics>>
    /\ UNCHANGED <<mapVars, ctxVars, schemaVars, askVars, parseVars, verVars, regalVars, stripVars, pubVars, policyVars, fsVars, storeVars, panelVars, shareVars>>

\* The debounce timer fires: lintPlugin.run, and the source function up to its
\* first await
TimerFire ==
    /\ timeout # NoTimer
    /\ now >= timeout
    /\ IF now < lintTime - 10
       THEN /\ timeout' = lintTime
            /\ UNCHANGED <<set, calls, nextCall, markers, lintDiagnostics, hist>>
       ELSE /\ timeout' = NoTimer
            /\ set' = FALSE
            /\ IF TooShort(SnapshotDoc)
               THEN /\ lintDiagnostics' = <<>>
                    /\ markers' = <<>>
                    /\ hist' = [hist EXCEPT !.runsSinceEdit = @ + 1,
                                            !.lastEvent = "run_short",
                                            !.panelFrom = [snap |-> docVer, at |-> docVer],
                                            !.markersFrom = [snap |-> docVer, at |-> docVer]]
                    /\ UNCHANGED <<calls, nextCall>>
               ELSE /\ nextCall < MaxCalls
                    /\ calls' = calls \cup {[id |-> nextCall, snap |-> docVer,
                                             policy |-> SnapshotDoc]}
                    /\ nextCall' = nextCall + 1
                    /\ hist' = [hist EXCEPT !.runsSinceEdit = @ + 1,
                                            !.callsSinceEdit = @ + 1,
                                            !.lastCall = [snap |-> docVer, at |-> docVer],
                                            !.lastPolicy = SnapshotDoc,
                                            !.lastIssuedAt = now,
                                            !.lastEvent = "run_call"]
                    /\ UNCHANGED <<markers, lintDiagnostics>>
    /\ UNCHANGED <<now, doc, docVer, lintTime>>
    /\ UNCHANGED <<mapVars, ctxVars, schemaVars, askVars, parseVars, verVars, regalVars, stripVars, pubVars, policyVars, fsVars, storeVars, panelVars, shareVars>>

\* code-editor.tsx: the source function after `await fetch`, then the plugin's
\* `if (this.view.state.doc == state.doc) dispatch(setDiagnostics(...))`
LintResponse(c, out) ==
    /\ c \in calls
    /\ calls' = calls \ {c}
    /\ IF out.kind = "ok"
       THEN LET diagnostics == mapToDiagnostics(out.violations)
                cmDiagnostics == CmDiagnostics(diagnostics, doc)
            IN  /\ lintDiagnostics' = diagnostics
                /\ markers' = IF docVer = c.snap THEN cmDiagnostics ELSE markers
                /\ hist' = [hist EXCEPT
                              !.lastEvent = "resp_ok",
                              !.lastRespSnap = c.snap,
                              !.panelFrom = [snap |-> c.snap, at |-> docVer],
                              !.markersFrom = IF docVer = c.snap
                                              THEN [snap |-> c.snap, at |-> docVer]
                                              ELSE @]
       ELSE /\ markers' = IF docVer = c.snap THEN <<>> ELSE markers
            /\ hist' = [hist EXCEPT
                          !.lastEvent = "resp_fail",
                          !.lastRespSnap = c.snap,
                          !.markersFrom = IF docVer = c.snap
                                          THEN [snap |-> c.snap, at |-> docVer]
                                          ELSE @]
            /\ UNCHANGED lintDiagnostics
    /\ UNCHANGED <<now, doc, docVer, lintTime, set, timeout, nextCall>>
    /\ UNCHANGED <<mapVars, ctxVars, schemaVars, askVars, parseVars, verVars, regalVars, stripVars, pubVars, policyVars, fsVars, storeVars, panelVars, shareVars>>

EditPolicy == \E d \in PolicyDocs : Edit(d)
LintResponds == \E c \in calls, out \in LintOutcomes : LintResponse(c, out)

NextLint == Tick \/ EditPolicy \/ TimerFire \/ LintResponds

SpecLint == InitLint /\ [][NextLint]_vars

\* C1: a lint response for a superseded snapshot is discarded.  Whatever is
\* published, as the editor's markers or through onLintDiagnostics, comes from
\* a call whose snapshot was still the buffer when it was published, and once
\* nothing is pending after a successful response the panel shows the newest
\* snapshot's diagnostics.
C1_StaleResponseDiscarded ==
    /\ hist.panelFrom # NoCall => hist.panelFrom.snap = hist.panelFrom.at
    /\ hist.markersFrom # NoCall => hist.markersFrom.snap = hist.markersFrom.at
    /\ (calls = {} /\ timeout = NoTimer /\ hist.lastEvent = "resp_ok")
          => hist.panelFrom.snap = docVer

\* C2: at most one POST /api/lint is in flight in every reachable state.
C2_SingleFlight == Cardinality(calls) <= 1

\* C3: the edits of one debounce window produce exactly one lint call, issued
\* no earlier than the debounce delay after the last edit and carrying the
\* buffer content left by the last edit.
DebounceWindow == 750
C3_DebounceCollapses ==
    /\ hist.callsSinceEdit <= 1
    /\ hist.callsSinceEdit = 1 =>
          /\ hist.lastPolicy = doc
          /\ hist.lastIssuedAt >= hist.lastEditTime + DebounceWindow - 10
    /\ (~set /\ ~TooShort(doc)) => hist.callsSinceEdit = 1

\* Three edits fell into one window and one call went out for them.
C3_Witness ==
    /\ hist.burstEdits >= 3
    /\ ~set
    /\ hist.callsSinceEdit = 1
    /\ hist.lastPolicy = doc

\* C4: when the lint call for the current buffer fails, the markers and the
\* set delivered through onLintDiagnostics are both empty and no timer is left
\* armed.
C4_FailurePublishesEmpty ==
    (hist.lastEvent = "resp_fail" /\ hist.lastRespSnap = docVer)
        => /\ markers = <<>>
           /\ lintDiagnostics = <<>>
           /\ timeout = NoTimer

\* C21: a lint run on a buffer that is empty or shorter than the threshold
\* once trimmed issues no call and publishes the empty set; every call that
\* goes out carries a buffer at or above the threshold.
C21_ShortBufferNotLinted ==
    /\ \A c \in calls : Len(Trim(c.policy)) >= MinLintLength
    /\ hist.lastEvent = "run_call" => Len(Trim(hist.lastPolicy)) >= MinLintLength
    /\ hist.lastEvent = "run_short" =>
          /\ Len(Trim(doc)) < MinLintLength
          /\ lintDiagnostics = <<>> /\ markers = <<>>
          /\ hist.callsSinceEdit = 0
    /\ (~set /\ Len(Trim(doc)) < MinLintLength) => hist.callsSinceEdit = 0

\* a run on a buffer of eleven characters, nine once trimmed, after a call for
\* an earlier buffer
C21_Witness ==
    /\ hist.lastEvent = "run_short"
    /\ Len(doc) >= MinLintLength /\ Len(Trim(doc)) < MinLintLength
    /\ nextCall > 0

----------------------------------------------------------------------------
(* The diagnostics mapping on its own: one POST /api/lint handled end to end, *)
(* for every finding position and every buffer the editor may hold.           *)

MaxRow == 3
MaxCol == 5
MaxTextLen == 3
MaxViolations == 2

MapDocs == {<<>>, <<"a", "b">>, <<"a", NL, "b", "c">>, <<"a", "b", NL, NL>>}
RuleTitles == {"directory-package-mismatch", "opa-fmt", ""}

\* What the linter process may report for one finding; 0 stands for an absent
\* row, col or text
Violation(title, row, col, textLen) ==
    [title |-> title, category |-> IF title = "" THEN "" ELSE "style",
     level |-> IF title = "opa-fmt" THEN "error" ELSE "warning",
     description |-> "", row |-> row, col |-> col, textLen |-> textLen]

InitMap ==
    /\ now = AtRest /\ doc = AtRest /\ docVer = AtRest /\ lintTime = AtRest
    /\ set = AtRest /\ timeout = AtRest /\ calls = AtRest /\ nextCall = AtRest
    /\ markers = AtRest /\ lintDiagnostics = AtRest /\ hist = AtRest
    /\ inputBuf = AtRest /\ dataBuf = AtRest /\ settings = AtRest /\ viewField = AtRest
    /\ text = AtRest /\ typed = AtRest /\ dataContext = AtRest /\ schemaOut = AtRest
    /\ ask = AtRest /\ answer = AtRest
    /\ tokens = AtRest /\ tree = AtRest
    /\ files = AtRest /\ run = AtRest
    /\ proc = AtRest /\ lint = AtRest
    /\ jsonc = AtRest /\ clean = AtRest
    /\ gh = AtRest /\ pub = AtRest
    /\ selected = AtRest /\ loading = AtRest /\ activePolicyContent = AtRest /\ stored = AtRest
    /\ docs = AtRest /\ renamed = AtRest
    /\ touched = AtRest
    /\ dataPanel = AtRest /\ inserted = AtRest
    /\ dateNow = AtRest /\ shares = AtRest /\ got = AtRest
    /\ mapDoc \in MapDocs
    /\ \E t \in RuleTitles, r \in (0 - 1)..MaxRow, c \in (0 - 1)..MaxCol, n \in 0..MaxTextLen :
          mapViolations = <<Violation(t, r, c, n)>>
    /\ mapOut = AtRest

\* The linter reports one more finding at the same place
ReportViolation ==
    /\ Len(mapViolations) < MaxViolations
    /\ mapOut = AtRest
    /\ \E t \in RuleTitles :
          LET last == mapViolations[Len(mapViolations)]
          IN  mapViolations' = Append(mapViolations,
                                      Violation(t, last.row, last.col, last.textLen))
    /\ UNCHANGED <<mapDoc, mapOut>>
    /\ UNCHANGED <<lintVars, ctxVars, schemaVars, askVars, parseVars, verVars, regalVars, stripVars, pubVars, policyVars, fsVars, storeVars, panelVars, shareVars>>

\* policies.js POST /lint (mapToDiagnostics over result.violations), then
\* code-editor.tsx mapping result.diagnostics against the current buffer
HandleLint ==
    /\ mapOut = AtRest
    /\ LET diagnostics == mapToDiagnostics(mapViolations)
       IN  mapOut' = [done |-> TRUE,
                      diagnostics |-> diagnostics,
                      cm |-> CmDiagnostics(diagnostics, mapDoc)]
    /\ UNCHANGED <<mapDoc, mapViolations>>
    /\ UNCHANGED <<lintVars, ctxVars, schemaVars, askVars, parseVars, verVars, regalVars, stripVars, pubVars, policyVars, fsVars, storeVars, panelVars, shareVars>>

NextMap == ReportViolation \/ HandleLint

SpecMap == InitMap /\ [][NextMap]_vars

\* C5: every mapped diagnostic uses lines clamped to [1, lineCount] and offsets
\* with 0 <= from <= to <= document length, wherever the finding points.
C5_RangeWithinDocument ==
    mapOut.done =>
        \A i \in DOMAIN mapOut.cm :
            LET m == mapOut.cm[i]
            IN  /\ 1 <= m.fromLine /\ m.fromLine <= DocLines(mapDoc)
                /\ 1 <= m.toLine /\ m.toLine <= DocLines(mapDoc)
                /\ 0 <= m.from /\ m.from <= m.to /\ m.to <= Len(mapDoc)

\* A finding at row 3, col 5 with a 3-character text was mapped against a
\* 2-line buffer.
C5_Witness ==
    /\ mapOut.done
    /\ mapDoc = <<"a", NL, "b", "c">>
    /\ mapViolations[1].row = 3 /\ mapViolations[1].col = 5
    /\ mapViolations[1].textLen = 3
    /\ Len(mapOut.cm) >= 1
    /\ mapOut.cm[1].fromLine = 2

CountTitle(vs, t) == Cardinality({i \in DOMAIN vs : vs[i].title = t})
CountRule(ds, t) == Cardinality({i \in DOMAIN ds : ds[i].rule = t})

\* C6: no returned diagnostic carries the rule 'directory-package-mismatch',
\* and every violation of any other rule yields exactly one diagnostic.
C6_OnlySuppressedRuleFiltered ==
    mapOut.done =>
        /\ CountRule(mapOut.diagnostics, "directory-package-mismatch") = 0
        /\ \A t \in RuleTitles \ {"directory-package-mismatch"} :
              CountRule(mapOut.diagnostics, t) = CountTitle(mapViolations, t)
        /\ Len(mapOut.diagnostics) =
              Len(mapViolations) - CountTitle(mapViolations, "directory-package-mismatch")

\* A suppressed finding and another one were reported together.
C6_Witness ==
    /\ mapOut.done
    /\ CountTitle(mapViolations, "directory-package-mismatch") = 1
    /\ CountTitle(mapViolations, "opa-fmt") = 1
    /\ Len(mapOut.diagnostics) = 1

----------------------------------------------------------------------------
(* JSON texts and values.  JSON.parse is modelled for texts made of objects,  *)
(* arrays, strings (with the escapes \" \\ \/ \n \t), integers and the three  *)
(* literals; the texts of this model use no other JSON syntax.  A value is a  *)
(* record of its kind and, by kind, its number (1 and 0 for true and false),  *)
(* its characters, its items or its members.                                  *)

JVal(kind, num, str, items, members) ==
    [kind |-> kind, num |-> num, str |-> str, items |-> items, members |-> members]
JNull == JVal("null", 0, <<>>, <<>>, <<>>)
JBool(b) == JVal("boolean", IF b THEN 1 ELSE 0, <<>>, <<>>, <<>>)
JNum(n) == JVal("number", n, <<>>, <<>>, <<>>)
JStr(cs) == JVal("string", 0, cs, <<>>, <<>>)
JArr(items) == JVal("array", 0, <<>>, items, <<>>)
JObj(members) == JVal("object", 0, <<>>, <<>>, members)

Digits == <<"0", "1", "2", "3", "4", "5", "6", "7", "8", "9">>
IsDigit(c) == \E i \in 1..10 : Digits[i] = c
DigitVal(c) == (CHOOSE i \in 1..10 : Digits[i] = c) - 1
JsonSpace == {" ", NL, "\t", "\r"}

RECURSIVE SkipWs(_, _)
SkipWs(s, i) == IF i <= Len(s) /\ s[i] \in JsonSpace THEN SkipWs(s, i + 1) ELSE i

StartsWithAt(s, i, w) == i + Len(w) - 1 <= Len(s) /\ SubSeq(s, i, i + Len(w) - 1) = w

Fail == [ok |-> FALSE]
Ok(val, next) == [ok |-> TRUE, val |-> val, next |-> next]

\* An own property name that is an array index: enumerated first, in ascending order
IsIndexKey(key) ==
    /\ key # <<>>
    /\ \A i \in 1..Len(key) : IsDigit(key[i])
    /\ (Len(key) = 1 \/ key[1] # "0")

RECURSIVE IndexOf(_)
IndexOf(key) ==
    IF key = <<>> THEN 0
    ELSE 10 * IndexOf(SubSeq(key, 1, Len(key) - 1)) + DigitVal(key[Len(key)])

\* Whether key a is enumerated before key b when b was defined earlier than a
ComesBefore(a, b) ==
    IsIndexKey(a) /\ (~IsIndexKey(b) \/ IndexOf(a) < IndexOf(b))

\* Defining property `key` of an object under construction: a repeated name
\* keeps its place and takes the new value
RECURSIVE ObjPut(_, _, _)
ObjPut(members, key, val) ==
    IF members = <<>> THEN <<[key |-> key, val |-> val]>>
    ELSE IF Head(members).key = key
         THEN <<[key |-> key, val |-> val]>> \o Tail(members)
         ELSE IF ComesBefore(key, Head(members).key) /\
                 ~\E i \in DOMAIN members : members[i].key = key
              THEN <<[key |-> key, val |-> val]>> \o members
              ELSE <<Head(members)>> \o ObjPut(Tail(members), key, val)

RECURSIVE ParseString(_, _, _)
ParseString(s, i, acc) ==
    IF i > Len(s) THEN Fail
    ELSE IF s[i] = "\"" THEN Ok(acc, i + 1)
    ELSE IF s[i] = "\\"
         THEN IF i + 1 > Len(s) THEN Fail
              ELSE IF s[i + 1] \in {"\"", "\\", "/"}
                   THEN ParseString(s, i + 2, Append(acc, s[i + 1]))
              ELSE IF s[i + 1] = "n" THEN ParseString(s, i + 2, Append(acc, NL))
              ELSE IF s[i + 1] = "t" THEN ParseString(s, i + 2, Append(acc, "\t"))
              ELSE Fail
    ELSE IF s[i] \in {NL, "\t", "\r"} THEN Fail
    ELSE ParseString(s, i + 1, Append(acc, s[i]))

RECURSIVE ParseDigits(_, _, _)
ParseDigits(s, i, acc) ==
    IF i <= Len(s) /\ IsDigit(s[i])
    THEN ParseDigits(s, i + 1, 10 * acc + DigitVal(s[i]))
    ELSE Ok(acc, i)

ParseNumber(s, i) ==
    LET neg == s[i] = "-"
        j == IF neg THEN i + 1 ELSE i
    IN  IF j > Len(s) \/ ~IsDigit(s[j]) THEN Fail
        ELSE IF s[j] = "0" /\ j + 1 <= Len(s) /\ IsDigit(s[j + 1]) THEN Fail
        ELSE LET r == ParseDigits(s, j, 0)
             IN  Ok(JNum(IF neg THEN 0 - r.val ELSE r.val), r.next)

RECURSIVE ParseValue(_, _)
RECURSIVE ParseItems(_, _, _)
RECURSIVE ParseMembers(_, _, _)

\* The elements of an array from position i on, acc the ones read so far
ParseItems(s, i, acc) ==
    LET r == ParseValue(s, i)
    IN  IF ~r.ok THEN Fail
        ELSE LET j == SkipWs(s, r.next)
             IN  IF j > Len(s) THEN Fail
                 ELSE IF s[j] = "," THEN ParseItems(s, j + 1, Append(acc, r.val))
                 ELSE IF s[j] = "]" THEN Ok(JArr(Append(acc, r.val)), j + 1)
                 ELSE Fail

\* The members of an object from position i on, acc the ones read so far
ParseMembers(s, i, acc) ==
    LET j == SkipWs(s, i)
    IN  IF j > Len(s) \/ s[j] # "\"" THEN Fail
        ELSE LET key == ParseString(s, j + 1, <<>>)
             IN  IF ~key.ok THEN Fail
                 ELSE LET c == SkipWs(s, key.next)
                      IN  IF c > Len(s) \/ s[c] # ":" THEN Fail
                          ELSE LET r == ParseValue(s, c + 1)
                               IN  IF ~r.ok THEN Fail
                                   ELSE LET e == SkipWs(s, r.next)
                                            put == ObjPut(acc, key.val, r.val)
                                        IN  IF e > Len(s) THEN Fail
                                            ELSE IF s[e] = "," THEN ParseMembers(s, e + 1, put)
                                            ELSE IF s[e] = "}" THEN Ok(JObj(put), e + 1)
                                            ELSE Fail

ParseValue(s, i) ==
    LET j == SkipWs(s, i)
    IN  IF j > Len(s) THEN Fail
        ELSE IF s[j] = "{"
             THEN LET e == SkipWs(s, j + 1)
                  IN  IF e <= Len(s) /\ s[e] = "}" THEN Ok(JObj(<<>>), e + 1)
                      ELSE ParseMembers(s, j + 1, <<>>)
        ELSE IF s[j] = "["
             THEN LET e == SkipWs(s, j + 1)
                  IN  IF e <= Len(s) /\ s[e] = "]" THEN Ok(JArr(<<>>), e + 1)
                      ELSE ParseItems(s, j + 1, <<>>)
        ELSE IF s[j] = "\""
             THEN LET r == ParseString(s, j + 1, <<>>)
                  IN  IF r.ok THEN Ok(JStr(r.val), r.next) ELSE Fail
        ELSE IF s[j] = "-" \/ IsDigit(s[j]) THEN ParseNumber(s, j)
        ELSE IF StartsWithAt(s, j, <<"t", "r", "u", "e">>) THEN Ok(JBool(TRUE), j + 4)
        ELSE IF StartsWithAt(s, j, <<"f", "a", "l", "s", "e">>) THEN Ok(JBool(FALSE), j + 5)
        ELSE IF StartsWithAt(s, j, <<"n", "u", "l", "l">>) THEN Ok(JNull, j + 4)
        ELSE Fail

\* JSON.parse: the value, or a failure where JSON.parse throws
JsonParse(s) ==
    LET r == ParseValue(s, 1)
    IN  IF r.ok /\ SkipWs(s, r.next) > Len(s) THEN r ELSE Fail

----------------------------------------------------------------------------
(* frontend/lib/data-context.ts: the schema builder *)

\* .replace(/\/\/[^\n]*/g, ''): from every "//" to the end of its line
RECURSIVE StripLineComments(_, _)
StripLineComments(s, i) ==
    IF i > Len(s) THEN <<>>
    ELSE IF StartsWithAt(s, i, <<"/", "/">>)
         THEN LET ends == {j \in (i + 2)..Len(s) : s[j] = NL}
                  stop == IF ends = {} THEN Len(s) + 1
                          ELSE CHOOSE j \in ends : \A e \in ends : j <= e
              IN  StripLineComments(s, stop)
         ELSE <<s[i]>> \o StripLineComments(s, i + 1)

\* .replace(/\/\*[\s\S]*?\*\//g, ''): from every "/*" to the first "*/" after it
RECURSIVE StripBlockComments(_, _)
StripBlockComments(s, i) ==
    IF i > Len(s) THEN <<>>
    ELSE LET closes == {j \in (i + 2)..Len(s) : StartsWithAt(s, j, <<"*", "/">>)}
         IN  IF StartsWithAt(s, i, <<"/", "*">>) /\ closes # {}
             THEN StripBlockComments(s, (CHOOSE j \in closes : \A e \in closes : j <= e) + 2)
             ELSE <<s[i]>> \o StripBlockComments(s, i + 1)

StripComments(s) == StripBlockComments(StripLineComments(s, 1), 1)

\* The result `null` of parseJsonToSchema, and a null root of a DataContext
NoSchema == [absent |-> TRUE]

FirstN(q, n) == SubSeq(q, 1, Min(n, Len(q)))

ArrayNodeAlwaysTyped(items, itemNode, sourceName) ==
    [type |-> "array", example |-> JArr(FirstN(items, 3)), source |-> sourceName,
     arrayItemType |-> IF items = <<>> THEN [type |-> "null", source |-> sourceName]
                       ELSE itemNode]

ArrayNodeFromLast(items, itemNode, sourceName) ==
    IF Len(items) > 0
    THEN [type |-> "array", example |-> JArr(FirstN(items, 3)), source |-> sourceName,
          arrayItemType |-> IF items[Len(items)].kind \in {"number", "string"}
                            THEN [type |-> items[Len(items)].kind, example |-> items[Len(items)],
                                  source |-> sourceName]
                            ELSE itemNode]
    ELSE [type |-> "array", example |-> JArr(<<>>), source |-> sourceName]

\* buildSchemaNode, the Array.isArray branch; itemNode is the node built from value[0]
ArrayNode(items, itemNode, sourceName) ==
    IF Len(items) > 0
    THEN [type |-> "array", example |-> JArr(FirstN(items, 3)), source |-> sourceName,
          arrayItemType |-> itemNode]
    ELSE [type |-> "array", example |-> JArr(<<>>), source |-> sourceName]

RECURSIVE buildSchemaNode(_, _)
buildSchemaNode(value, sourceName) ==
    IF value.kind = "null"
    THEN [type |-> "null", example |-> JNull, source |-> sourceName]
    ELSE IF value.kind = "array"
    THEN ArrayNode(value.items,
                   IF value.items = <<>> THEN NoSchema
                   ELSE buildSchemaNode(value.items[1], sourceName),
                   sourceName)
    ELSE IF value.kind = "object"
    THEN [type |-> "object",
          children |-> [i \in 1..Len(value.members) |->
                           [key |-> value.members[i].key,
                            node |-> buildSchemaNode(value.members[i].val, sourceName)]],
          example |-> JArr(FirstN([i \in 1..Len(value.members) |->
                                      JStr(value.members[i].key)], 5)),
          source |-> sourceName]
    ELSE [type |-> value.kind, example |-> value, source |-> sourceName]

ParseUnstripped(jsonString, sourceName) ==
    LET parsed == JsonParse(jsonString)
    IN  IF parsed.ok THEN buildSchemaNode(parsed.val, sourceName) ELSE NoSchema

parseJsonToSchemaOrEmpty(jsonString, sourceName) ==
    LET parsed == JsonParse(StripComments(jsonString))
    IN  buildSchemaNode(IF parsed.ok THEN parsed.val ELSE JObj(<<>>), sourceName)

\* parseJsonToSchema: null where JSON.parse throws
parseJsonToSchema(jsonString, sourceName) ==
    LET parsed == JsonParse(StripComments(jsonString))
    IN  IF parsed.ok THEN buildSchemaNode(parsed.val, sourceName) ELSE NoSchema

----------------------------------------------------------------------------
(* frontend/lib/data-context.ts: the path resolver.  A path is text; labels   *)
(* and formatted examples are text; a detail or type description is the list  *)
(* of the strings the code concatenates.  Path segments of this model are not *)
(* names inherited from Object.prototype.                                     *)

InputWord == <<"i", "n", "p", "u", "t">>
DataWord == <<"d", "a", "t", "a">>

IsNull(node) == "absent" \in DOMAIN node
Has(node, field) == field \in DOMAIN node

\* String.prototype.split('.')
RECURSIVE SplitDots(_)
SplitDots(s) ==
    LET dots == {i \in 1..Len(s) : s[i] = "."}
    IN  IF dots = {} THEN <<s>>
        ELSE LET d == CHOOSE i \in dots : \A j \in dots : i <= j
             IN  <<SubSeq(s, 1, d - 1)>> \o SplitDots(SubSeq(s, d + 1, Len(s)))

\* children[part] || null
ChildAt(children, part) ==
    LET hits == {i \in DOMAIN children : children[i].key = part}
    IN  IF hits = {} THEN NoSchema ELSE children[CHOOSE i \in hits : TRUE].node

\* !isNaN(parseInt(part, 10)): optional white space and sign, then a digit
ParsesAsInt(part) ==
    LET t == TrimStart(part)
        u == IF t # <<>> /\ Head(t) \in {"+", "-"} THEN Tail(t) ELSE t
    IN  u # <<>> /\ IsDigit(Head(u))

\* /^\[(\d+|_)\]$/
IsIndexPart(part) ==
    /\ Len(part) >= 3
    /\ part[1] = "[" /\ part[Len(part)] = "]"
    /\ LET mid == SubSeq(part, 2, Len(part) - 1)
       IN  mid = <<"_">> \/ \A i \in 1..Len(mid) : IsDigit(mid[i])

RootSchema(context, root) ==
    IF root = InputWord THEN context.input
    ELSE IF root = DataWord THEN context.data
    ELSE NoSchema

\* getCompletionsForPath: one turn of the navigation loop
CompletionStep(current, part) ==
    IF current.type = "object" /\ Has(current, "children")
    THEN ChildAt(current.children, part)
    ELSE IF current.type = "array" /\ Has(current, "arrayItemType")
    THEN IF ParsesAsInt(part) THEN current.arrayItemType
         ELSE IF current.arrayItemType.type = "object" /\ Has(current.arrayItemType, "children")
              THEN ChildAt(current.arrayItemType.children, part)
              ELSE NoSchema
    ELSE NoSchema

\* getTooltipForPath: one turn of the navigation loop
TooltipStep(current, part) ==
    IF IsIndexPart(part) /\ current.type = "array" /\ Has(current, "arrayItemType")
    THEN current.arrayItemType
    ELSE IF current.type = "object" /\ Has(current, "children")
    THEN ChildAt(current.children, part)
    ELSE IF /\ current.type = "array" /\ Has(current, "arrayItemType")
            /\ current.arrayItemType.type = "object"
            /\ Has(current.arrayItemType, "children")
    THEN ChildAt(current.arrayItemType.children, part)
    ELSE NoSchema

RECURSIVE CompletionWalk(_, _)
CompletionWalk(current, parts) ==
    IF parts = <<>> THEN current
    ELSE IF Head(parts) = <<>> THEN CompletionWalk(current, Tail(parts))
    ELSE LET next == CompletionStep(current, Head(parts))
         IN  IF IsNull(next) THEN NoSchema ELSE CompletionWalk(next, Tail(parts))

RECURSIVE TooltipWalk(_, _)
TooltipWalk(current, parts) ==
    IF parts = <<>> THEN current
    ELSE IF Head(parts) = <<>> THEN TooltipWalk(current, Tail(parts))
    ELSE LET next == TooltipStep(current, Head(parts))
         IN  IF IsNull(next) THEN NoSchema ELSE TooltipWalk(next, Tail(parts))

getCompletionType(schemaType) ==
    CASE schemaType = "object" -> "property"
      [] schemaType = "array" -> "variable"
      [] schemaType = "string" -> "text"
      [] schemaType = "number" -> "constant"
      [] schemaType = "boolean" -> "constant"
      [] OTHER -> "variable"

RECURSIVE NatToChars(_)
NatToChars(n) ==
    IF n < 10 THEN <<Digits[n + 1]>>
    ELSE NatToChars(n \div 10) \o <<Digits[(n % 10) + 1]>>

\* String(n) of an integer
IntToChars(n) == IF n < 0 THEN <<"-">> \o NatToChars(0 - n) ELSE NatToChars(n)

RECURSIVE Join(_, _)
Join(parts, sep) ==
    IF parts = <<>> THEN <<>>
    ELSE IF Len(parts) = 1 THEN parts[1]
    ELSE parts[1] \o sep \o Join(Tail(parts), sep)

RECURSIVE QuoteChars(_)
QuoteChars(cs) ==
    IF cs = <<>> THEN <<>>
    ELSE (CASE Head(cs) = "\"" -> <<"\\", "\"">>
            [] Head(cs) = "\\" -> <<"\\", "\\">>
            [] Head(cs) = NL -> <<"\\", "n">>
            [] Head(cs) = "\t" -> <<"\\", "t">>
            [] OTHER -> <<Head(cs)>>) \o QuoteChars(Tail(cs))

\* JSON.stringify(value), without indentation
RECURSIVE Stringify(_)
Stringify(value) ==
    CASE value.kind = "null" -> <<"n", "u", "l", "l">>
      [] value.kind = "boolean" ->
            IF value.num = 1 THEN <<"t", "r", "u", "e">> ELSE <<"f", "a", "l", "s", "e">>
      [] value.kind = "number" -> IntToChars(value.num)
      [] value.kind = "string" -> <<"\"">> \o QuoteChars(value.str) \o <<"\"">>
      [] value.kind = "array" ->
            <<"[">> \o Join([i \in 1..Len(value.items) |-> Stringify(value.items[i])],
                            <<",">>) \o <<"]">>
      [] value.kind = "object" ->
            <<"{">> \o Join([i \in 1..Len(value.members) |->
                               <<"\"">> \o QuoteChars(value.members[i].key) \o <<"\"", ":">>
                                   \o Stringify(value.members[i].val)],
                            <<",">>) \o <<"}">>

formatExampleValue(node) ==
    IF ~Has(node, "example") \/ node.example.kind = "null" THEN <<>>
    ELSE IF node.type = "object"
    THEN LET keys == [i \in 1..Len(node.example.items) |-> node.example.items[i].str]
         IN  <<"{", " ">> \o Join(keys, <<",", " ">>)
                 \o (IF Len(keys) >= 5 THEN <<",", " ", ".", ".", ".">> ELSE <<>>)
                 \o <<" ", "}">>
    ELSE IF node.type = "array"
    THEN LET preview == Stringify(JArr(FirstN(node.example.items, 3)))
         IN  IF Len(node.example.items) > 3
             THEN SubSeq(preview, 1, Len(preview) - 1) \o <<",", " ", ".", ".", ".", "]">>
             ELSE preview
    ELSE IF node.type = "string"
    THEN IF Len(node.example.str) > 30
         THEN <<"\"">> \o SubSeq(node.example.str, 1, 30) \o <<".", ".", ".", "\"">>
         ELSE <<"\"">> \o node.example.str \o <<"\"">>
    ELSE Stringify(node.example)

formatTypePlain(node) == <<node.type>>

formatTypeDescription(node) ==
    IF node.type = "array" /\ Has(node, "arrayItemType")
    THEN <<"array<", node.arrayItemType.type, ">">>
    ELSE <<node.type>>

ChildCompletionsButLast(children, prefix, detailPrefix) ==
    [i \in 1..(Len(children) - 1) |->
        [label |-> prefix \o children[i].key,
         type |-> getCompletionType(children[i].node.type),
         detail |-> detailPrefix \o <<children[i].node.type>>,
         info |-> formatExampleValue(children[i].node)]]

ChildCompletions(children, prefix, detailPrefix) ==
    [i \in 1..Len(children) |->
        [label |-> prefix \o children[i].key,
         type |-> getCompletionType(children[i].node.type),
         detail |-> detailPrefix \o <<children[i].node.type>>,
         info |-> formatExampleValue(children[i].node)]]

getCompletionsForPathBare(context, prefix) ==
    LET parts == SplitDots(prefix)
        schema == RootSchema(context, parts[1])
    IN  IF IsNull(schema) THEN <<>>
        ELSE LET current == CompletionWalk(schema, Tail(parts))
             IN  IF IsNull(current) THEN <<>>
                 ELSE IF current.type = "object" /\ Has(current, "children")
                 THEN ChildCompletions(current.children, <<>>, <<>>)
                 ELSE IF /\ current.type = "array" /\ Has(current, "arrayItemType")
                         /\ current.arrayItemType.type = "object"
                         /\ Has(current.arrayItemType, "children")
                 THEN ChildCompletions(current.arrayItemType.children, <<>>, <<>>)
                 ELSE <<>>

getCompletionsForPath(context, prefix) ==
    LET parts == SplitDots(prefix)
        schema == RootSchema(context, parts[1])
    IN  IF IsNull(schema) THEN <<>>
        ELSE LET current == CompletionWalk(schema, Tail(parts))
             IN  IF IsNull(current) THEN <<>>
                 ELSE IF current.type = "object" /\ Has(current, "children")
                 THEN ChildCompletions(current.children, <<>>, <<>>)
                 ELSE IF /\ current.type = "array" /\ Has(current, "arrayItemType")
                         /\ current.arrayItemType.type = "object"
                         /\ Has(current.arrayItemType, "children")
                 THEN ChildCompletions(current.arrayItemType.children,
                                       <<"[", "_", "]", ".">>, <<"array item -> ">>)
                 ELSE <<>>

\* The result `null` of getTooltipForPath
NoTooltip == [absent |-> TRUE]

getTooltipForPath(context, path) ==
    LET parts == SplitDots(path)
        schema == RootSchema(context, parts[1])
    IN  IF IsNull(schema) THEN NoTooltip
        ELSE LET current == TooltipWalk(schema, Tail(parts))
             IN  IF IsNull(current) THEN NoTooltip
                 ELSE [type |-> formatTypeDescription(current),
                       example |-> formatExampleValue(current),
                       source |-> current.source]

----------------------------------------------------------------------------
(* app/page.tsx: the data context rebuilt from the Input and Data buffers,   *)
(* and what the resolver answers from it, while the Data buffer is typed.    *)

\* page.tsx: parseJsonToSchema(activePolicyContent.input || '{}', 'Input') and
\* the same for data
DataContextOf(input, data) ==
    [input |-> parseJsonToSchema(IF input = <<>> THEN <<"{", "}">> ELSE input, "Input"),
     data |-> parseJsonToSchema(IF data = <<>> THEN <<"{", "}">> ELSE data, "Data")]

MaxFrags == 3

KeyA == <<"\"", "a", "\"", ":">>
StrSlashes == <<"\"", "/", "/", "\"">>
StrBlock == <<"\"", "/", "*", "x", "*", "/", "\"">>
LineComment == <<"/", "/", "c", NL>>
BlockComment == <<"/", "*", "c", "*", "/">>
NullWord == <<"n", "u", "l", "l">>
\* What one step of typing adds to the buffer
SchemaFragments ==
    {<<"{">>, <<"}">>, <<"[">>, <<"]">>, <<",">>, <<"1">>, KeyA, StrSlashes, StrBlock,
     LineComment, BlockComment, NullWord}

\* A buffer left in the middle of an edit: {"b":[1,
MidEditText == <<"{", "\"", "b", "\"", ":", "[", "1", ",">>
SeedTexts == {<<>>, <<"[">>, MidEditText}

\* The Input buffer beside it: {"a":1}
SchemaInputText == <<"{">> \o KeyA \o <<"1", "}">>

Path(segments) == Join(segments, <<".">>)
\* Paths completion and hover are asked for
ProbePaths ==
    <<Path(<<DataWord>>), Path(<<DataWord, <<>>>>), Path(<<DataWord, <<"a">>>>),
      Path(<<DataWord, <<"b">>>>), Path(<<DataWord, <<"b">>, <<"0">>>>),
      Path(<<DataWord, <<"b">>, <<"[", "0", "]">>>>), Path(<<DataWord, <<"a">>, <<"a">>>>),
      Path(<<InputWord>>), Path(<<InputWord, <<"a">>>>)>>

\* parseJsonToSchema of the buffer as it is, and the resolver's answers from
\* the page's data context
Resolved(data, context) ==
    [schema |-> parseJsonToSchema(data, "Data"),
     completions |-> [i \in DOMAIN ProbePaths |->
                         getCompletionsForPath(context, ProbePaths[i])],
     tooltips |-> [i \in DOMAIN ProbePaths |->
                      getTooltipForPath(context, ProbePaths[i])]]

InitSchema ==
    /\ now = AtRest /\ doc = AtRest /\ docVer = AtRest /\ lintTime = AtRest
    /\ set = AtRest /\ timeout = AtRest /\ calls = AtRest /\ nextCall = AtRest
    /\ markers = AtRest /\ lintDiagnostics = AtRest /\ hist = AtRest
    /\ ask = AtRest /\ answer = AtRest
    /\ tokens = AtRest /\ tree = AtRest
    /\ files = AtRest /\ run = AtRest
    /\ proc = AtRest /\ lint = AtRest
    /\ jsonc = AtRest /\ clean = AtRest
    /\ gh = AtRest /\ pub = AtRest
    /\ selected = AtRest /\ loading = AtRest /\ activePolicyContent = AtRest /\ stored = AtRest
    /\ docs = AtRest /\ renamed = AtRest
    /\ touched = AtRest
    /\ dataPanel = AtRest /\ inserted = AtRest
    /\ dateNow = AtRest /\ shares = AtRest /\ got = AtRest
    /\ mapDoc = AtRest /\ mapViolations = AtRest /\ mapOut = AtRest
    /\ inputBuf = AtRest /\ dataBuf = AtRest /\ settings = AtRest /\ viewField = AtRest
    /\ text \in SeedTexts
    /\ typed = 0
    /\ dataContext = DataContextOf(SchemaInputText, text)
    /\ schemaOut = Resolved(text, dataContext)

\* editor-panels onDataChange -> setActivePolicyContent -> page.tsx useMemo
TypeFragment ==
    /\ typed < MaxFrags
    /\ \E f \in SchemaFragments : text' = text \o f
    /\ typed' = typed + 1
    /\ dataContext' = DataContextOf(SchemaInputText, text')
    /\ schemaOut' = Resolved(text', dataContext')
    /\ UNCHANGED <<lintVars, mapVars, ctxVars, askVars, parseVars, verVars, regalVars, stripVars, pubVars, policyVars, fsVars, storeVars, panelVars, shareVars>>

NextSchema == TypeFragment

SpecSchema == InitSchema /\ [][NextSchema]_vars

\* C8: on a JSON document (with '//' or '/*' inside its strings or not) the
\* schema is the schema of the same document parsed without comment stripping
C8_StringsKeptVerbatim ==
    JsonParse(text).ok => schemaOut.schema = ParseUnstripped(text, "Data")

IsDataProbe(i) == StartsWithAt(ProbePaths[i], 1, DataWord)

\* C9: text that is not JSON once the comments are stripped gives null, and
\* under a null root every completion list is empty and every hover is nothing
C9_InvalidJsonIsNull ==
    /\ ~JsonParse(StripComments(text)).ok => schemaOut.schema = NoSchema
    /\ (~JsonParse(StripComments(text)).ok /\ text # <<>>) => dataContext.data = NoSchema
    /\ dataContext.data = NoSchema =>
           \A i \in DOMAIN ProbePaths :
               IsDataProbe(i) => /\ schemaOut.completions[i] = <<>>
                                 /\ schemaOut.tooltips[i] = NoTooltip

\* malformed data beside a well-formed input that still answers
C9_Witness ==
    /\ typed >= 2
    /\ ~JsonParse(StripComments(text)).ok
    /\ dataContext.data = NoSchema
    /\ \E i \in DOMAIN ProbePaths : ~IsDataProbe(i) /\ schemaOut.completions[i] # <<>>

RECURSIVE NodeShape(_, _)
NodeShape(value, node) ==
    /\ ("children" \in DOMAIN node) <=> (node.type = "object")
    /\ ("arrayItemType" \in DOMAIN node) <=> (node.type = "array" /\ value.items # <<>>)
    /\ "children" \in DOMAIN node =>
           \A i \in DOMAIN node.children :
               NodeShape(value.members[i].val, node.children[i].node)
    /\ "arrayItemType" \in DOMAIN node => NodeShape(value.items[1], node.arrayItemType)

\* C10: in every node of a built tree, children is present iff the type is
\* object, and arrayItemType iff the type is array and the array was non-empty
C10_NodeShape ==
    schemaOut.schema # NoSchema =>
        NodeShape(JsonParse(StripComments(text)).val, schemaOut.schema)

\* an array of an empty array: [[]]
C10_Witness ==
    /\ typed >= 1
    /\ schemaOut.schema # NoSchema
    /\ schemaOut.schema.type = "array"
    /\ "arrayItemType" \in DOMAIN schemaOut.schema
    /\ schemaOut.schema.arrayItemType.type = "array"
    /\ "arrayItemType" \notin DOMAIN schemaOut.schema.arrayItemType

----------------------------------------------------------------------------
(* The Rego editor's view and its dataContextField, over changes of the JSON *)
(* buffers and of the settings: page.tsx (dataContext),                       *)
(* components/code-editor.tsx (the effects), lang-rego/highlight.js          *)
(* (dataContextField).                                                        *)

EmptyObjectText == <<"{", "}">>
CtxTexts == {EmptyObjectText, SchemaInputText, <<"[", "1", "]">>, MidEditText}
FontSizes == {12, 14, 16}

\* dataContextField.create()
FieldCreate == [input |-> NoSchema, data |-> NoSchema]
\* the field after the effect of lines 336-346 has dispatched setDataContext
FieldSynced(input, data) == DataContextOf(input, data)

InitCtx ==
    /\ now = AtRest /\ doc = AtRest /\ docVer = AtRest /\ lintTime = AtRest
    /\ set = AtRest /\ timeout = AtRest /\ calls = AtRest /\ nextCall = AtRest
    /\ markers = AtRest /\ lintDiagnostics = AtRest /\ hist = AtRest
    /\ ask = AtRest /\ answer = AtRest
    /\ tokens = AtRest /\ tree = AtRest
    /\ files = AtRest /\ run = AtRest
    /\ proc = AtRest /\ lint = AtRest
    /\ jsonc = AtRest /\ clean = AtRest
    /\ gh = AtRest /\ pub = AtRest
    /\ selected = AtRest /\ loading = AtRest /\ activePolicyContent = AtRest /\ stored = AtRest
    /\ docs = AtRest /\ renamed = AtRest
    /\ touched = AtRest
    /\ dataPanel = AtRest /\ inserted = AtRest
    /\ dateNow = AtRest /\ shares = AtRest /\ got = AtRest
    /\ mapDoc = AtRest /\ mapViolations = AtRest /\ mapOut = AtRest
    /\ text = AtRest /\ typed = AtRest /\ dataContext = AtRest /\ schemaOut = AtRest
    /\ inputBuf = EmptyObjectText
    /\ dataBuf = EmptyObjectText
    /\ settings = [fontSize |-> 14, lineWrap |-> TRUE, liveLinting |-> TRUE]
    /\ viewField = FieldSynced(inputBuf, dataBuf)

\* the Input buffer changes: useMemo gives a new dataContext, the effect of
\* lines 336-346 dispatches it into the view
ChangeInput ==
    /\ \E t \in CtxTexts \ {inputBuf} : inputBuf' = t
    /\ viewField' = FieldSynced(inputBuf', dataBuf)
    /\ UNCHANGED <<dataBuf, settings, lintVars, mapVars, schemaVars, askVars, parseVars, verVars, regalVars, stripVars, pubVars, policyVars, fsVars, storeVars, panelVars, shareVars>>

ChangeData ==
    /\ \E t \in CtxTexts \ {dataBuf} : dataBuf' = t
    /\ viewField' = FieldSynced(inputBuf, dataBuf')
    /\ UNCHANGED <<inputBuf, settings, lintVars, mapVars, schemaVars, askVars, parseVars, verVars, regalVars, stripVars, pubVars, policyVars, fsVars, storeVars, panelVars, shareVars>>

\* A setting among the dependencies of the creation effect (line 297) changes:
\* the view is destroyed and created again; dataContext is the same object, so
\* the effect of lines 336-346 does not run
Recreate(newSettings) ==
    /\ newSettings # settings
    /\ settings' = newSettings
    /\ viewField' = FieldCreate
    /\ UNCHANGED <<inputBuf, dataBuf, lintVars, mapVars, schemaVars, askVars, parseVars, verVars, regalVars, stripVars, pubVars, policyVars, fsVars, storeVars, panelVars, shareVars>>

ChangeFontSize == \E n \in FontSizes : Recreate([settings EXCEPT !.fontSize = n])
ToggleLineWrap == Recreate([settings EXCEPT !.lineWrap = ~settings.lineWrap])
ToggleLiveLinting == Recreate([settings EXCEPT !.liveLinting = ~settings.liveLinting])

NextCtx == ChangeInput \/ ChangeData \/ ChangeFontSize \/ ToggleLineWrap \/ ToggleLiveLinting

SpecCtx == InitCtx /\ [][NextCtx]_vars

\* C7: the data context in dataContextField is the pair of schema trees of
\* the current input and data buffers, whatever changes and re-creations
\* came before
C7_FieldIsCurrentContext == viewField = DataContextOf(inputBuf, dataBuf)

----------------------------------------------------------------------------
(* The path resolver asked on its own: a document in the Input buffer, and a *)
(* path typed one segment at a time in the policy (data-context.ts,          *)
(* getCompletionsForPath and getTooltipForPath).                              *)

MaxItems == 2

KeyNames == <<<<"a">>, <<"b">>>>
Leaves == {JNum(1), JStr(<<"s">>)}

\* arrays of at most MaxItems items: any first item, leaves after it
RECURSIVE LeafRows(_)
LeafRows(n) ==
    IF n = 0 THEN {<<>>}
    ELSE LeafRows(n - 1) \cup {Append(r, l) : r \in {q \in LeafRows(n - 1) : Len(q) = n - 1}, l \in Leaves}
ArraysOver(vals) ==
    {JArr(<<>>)} \cup {JArr(<<v>> \o r) : v \in vals, r \in LeafRows(MaxItems - 1)}
\* objects whose keys are among KeyNames, in that order
ObjectsOver(vals) ==
    {JObj((IF ua THEN <<[key |-> KeyNames[1], val |-> va]>> ELSE <<>>)
              \o (IF ub THEN <<[key |-> KeyNames[2], val |-> vb]>> ELSE <<>>)) :
        va \in vals, vb \in vals, ua \in BOOLEAN, ub \in BOOLEAN}
ValuesOver(vals) == Leaves \cup ArraysOver(vals) \cup ObjectsOver(vals)
Nested == ValuesOver(ValuesOver(Leaves))
\* the documents: every value two levels deep, bare or as the one member of an object
Documents == Nested \cup {JObj(<<[key |-> KeyNames[1], val |-> v]>>) : v \in Nested}

\* what the policy author types after "input": a key, a number, an index or
\* wildcard on its own, a key with an index or wildcard attached
Segments ==
    {<<"a">>, <<"b">>, <<"0">>, <<"[", "_", "]">>, <<"b", "[", "0", "]">>,
     <<"a", "[", "_", "]">>}

\* regoHoverTooltip's pathRegex, run with exec from offset i of the line: the
\* matches (input|data)(\.[a-zA-Z_][a-zA-Z0-9_]*)* as <<start, end>> offsets
IdentStart == {"a", "b", "i", "n", "p", "u", "t", "d", "s", "x", "_"}
IdentChar == IdentStart \cup {"0", "1"}
RECURSIVE IdentEnd(_, _)
IdentEnd(line, i) ==
    IF i <= Len(line) /\ line[i] \in IdentChar THEN IdentEnd(line, i + 1) ELSE i
\* index after the longest (\.ident)* starting at index i
RECURSIVE DottedEnd(_, _)
DottedEnd(line, i) ==
    IF i + 1 <= Len(line) /\ line[i] = "." /\ line[i + 1] \in IdentStart
    THEN DottedEnd(line, IdentEnd(line, i + 1))
    ELSE i
RECURSIVE PathMatches(_, _)
PathMatches(line, i) ==
    IF i > Len(line) THEN <<>>
    ELSE LET root == IF StartsWithAt(line, i, InputWord) THEN InputWord
                     ELSE IF StartsWithAt(line, i, DataWord) THEN DataWord
                     ELSE <<>>
         IN  IF root = <<>> THEN PathMatches(line, i + 1)
             ELSE LET stop == DottedEnd(line, i + Len(root))
                  IN  <<[start |-> i - 1, end |-> stop - 1]>> \o PathMatches(line, stop)

\* regoHoverTooltip: the tooltip of the first match around linePos that resolves
regoHoverTooltip(context, lineText, linePos) ==
    LET matches == PathMatches(lineText, 1)
        tip(m) == getTooltipForPath(context, SubSeq(lineText, m.start + 1, m.end))
        hits == {k \in DOMAIN matches :
                    /\ linePos >= matches[k].start /\ linePos <= matches[k].end
                    /\ tip(matches[k]) # NoTooltip}
    IN  IF hits = {} THEN NoTooltip
        ELSE tip(matches[CHOOSE k \in hits : \A h \in hits : k <= h])

ContextOfInput(value) == [input |-> buildSchemaNode(value, "Input"), data |-> NoSchema]

\* the path as it stands in the policy text, and what the editor answers for it
Asked(value, segs) ==
    [value |-> value, segs |-> segs, context |-> ContextOfInput(value),
     path |-> Join(<<InputWord>> \o segs, <<".">>)]
Answered(q) ==
    [completions |-> getCompletionsForPath(q.context, q.path),
     tooltip |-> getTooltipForPath(q.context, q.path),
     hover |-> regoHoverTooltip(q.context, q.path, Len(q.path))]

InitResolve ==
    /\ now = AtRest /\ doc = AtRest /\ docVer = AtRest /\ lintTime = AtRest
    /\ set = AtRest /\ timeout = AtRest /\ calls = AtRest /\ nextCall = AtRest
    /\ markers = AtRest /\ lintDiagnostics = AtRest /\ hist = AtRest
    /\ tokens = AtRest /\ tree = AtRest
    /\ files = AtRest /\ run = AtRest
    /\ proc = AtRest /\ lint = AtRest
    /\ jsonc = AtRest /\ clean = AtRest
    /\ gh = AtRest /\ pub = AtRest
    /\ selected = AtRest /\ loading = AtRest /\ activePolicyContent = AtRest /\ stored = AtRest
    /\ docs = AtRest /\ renamed = AtRest
    /\ touched = AtRest
    /\ dataPanel = AtRest /\ inserted = AtRest
    /\ dateNow = AtRest /\ shares = AtRest /\ got = AtRest
    /\ mapDoc = AtRest /\ mapViolations = AtRest /\ mapOut = AtRest
    /\ inputBuf = AtRest /\ dataBuf = AtRest /\ settings = AtRest /\ viewField = AtRest
    /\ text = AtRest /\ typed = AtRest /\ dataContext = AtRest /\ schemaOut = AtRest
    /\ \E v \in Documents : ask = Asked(v, <<>>)
    /\ answer = Answered(ask)

\* one more segment typed after a path that is still on the tree
TypeSegment ==
    /\ \/ answer.tooltip # NoTooltip
       \/ ~IsNull(CompletionWalk(ask.context.input, ask.segs))
    /\ \E seg \in Segments : ask' = Asked(ask.value, Append(ask.segs, seg))
    /\ answer' = Answered(ask')
    /\ UNCHANGED <<lintVars, mapVars, ctxVars, schemaVars, parseVars, verVars, regalVars, stripVars, pubVars, policyVars, fsVars, storeVars, panelVars, shareVars>>

NextResolve == TypeSegment

SpecResolve == InitResolve /\ [][NextResolve]_vars

\* ---- the addressed value, read off the JSON document itself
OffTree == JVal("off", 0, <<>>, <<>>, <<>>)
MemberOf(value, name) ==
    LET hits == {i \in DOMAIN value.members : value.members[i].key = name}
    IN  IF hits = {} THEN OffTree ELSE value.members[CHOOSE i \in hits : TRUE].val
IsNumeric(seg) == seg # <<>> /\ \A i \in DOMAIN seg : IsDigit(seg[i])
IsName(seg) == seg # <<>> /\ seg[1] \in IdentStart /\ \A i \in DOMAIN seg : seg[i] \in IdentChar
\* a name on an object is its member; on an array a number is its first item
\* and a name is the member of its first item
AddressStep(value, seg) ==
    IF value.kind = "object" THEN MemberOf(value, seg)
    ELSE IF value.kind = "array" /\ value.items # <<>>
    THEN IF IsNumeric(seg) THEN value.items[1]
         ELSE IF value.items[1].kind = "object" THEN MemberOf(value.items[1], seg)
         ELSE OffTree
    ELSE OffTree
RECURSIVE Addressed(_, _)
Addressed(value, segs) ==
    IF segs = <<>> \/ value = OffTree THEN value
    ELSE Addressed(AddressStep(value, Head(segs)), Tail(segs))
PlainPath == \A i \in DOMAIN ask.segs : IsName(ask.segs[i]) \/ IsNumeric(ask.segs[i])

\* C11: a prefix that resolves to an object gets exactly one candidate per
\* child key, labelled with the key and detailed with the child's type; a
\* prefix that walks off the tree gets the empty list
C11_ObjectChildrenExactly ==
    PlainPath =>
        LET target == Addressed(ask.value, ask.segs)
        IN  /\ target.kind = "object" =>
                  /\ Len(answer.completions) = Len(target.members)
                  /\ \A i \in DOMAIN target.members :
                        /\ answer.completions[i].label = target.members[i].key
                        /\ answer.completions[i].detail = <<target.members[i].val.kind>>
            /\ target = OffTree => answer.completions = <<>>

C11_Witness ==
    /\ Len(ask.segs) >= 2
    /\ PlainPath
    /\ Addressed(ask.value, ask.segs).kind = "object"
    /\ Len(answer.completions) = 2
    /\ answer.completions[1].label # answer.completions[2].label

ItemLabel(name) == <<"[", "_", "]", ".">> \o name

\* C12: a prefix that resolves to an array of objects gets the item's keys,
\* each behind "[_]." and none bare; an array of anything else gets nothing
C12_ArrayItemsBehindMarker ==
    PlainPath =>
        LET target == Addressed(ask.value, ask.segs)
        IN  target.kind = "array" =>
                IF target.items # <<>> /\ target.items[1].kind = "object"
                THEN /\ Len(answer.completions) = Len(target.items[1].members)
                     /\ \A i \in DOMAIN answer.completions :
                            answer.completions[i].label =
                                ItemLabel(target.items[1].members[i].key)
                ELSE answer.completions = <<>>

C12_Witness ==
    /\ Len(ask.segs) >= 1
    /\ PlainPath
    /\ Addressed(ask.value, ask.segs).kind = "array"
    /\ Len(answer.completions) = 2
    /\ answer.completions[2].label = ItemLabel(<<"b">>)

\* ---- the value a hover path addresses: a segment is a name, an index or
\* wildcard, or a name with an index or wildcard attached (roles[_], items[0])
BracketAt(seg) ==
    LET opens == {i \in DOMAIN seg : seg[i] = "["}
    IN  IF opens = {} THEN Len(seg) + 1 ELSE CHOOSE i \in opens : \A j \in opens : i <= j
NamePart(seg) == SubSeq(seg, 1, BracketAt(seg) - 1)
IndexPart(seg) == SubSeq(seg, BracketAt(seg), Len(seg))
IsIndex(t) == t = <<"[", "_", "]">> \/ (Len(t) >= 3 /\ t[1] = "[" /\ t[Len(t)] = "]"
                                          /\ IsNumeric(SubSeq(t, 2, Len(t) - 1)))
IsHoverSegment(seg) ==
    /\ NamePart(seg) = <<>> \/ IsName(NamePart(seg))
    /\ IndexPart(seg) = <<>> \/ IsIndex(IndexPart(seg))
    /\ seg # <<>>
ItemOf(value) ==
    IF value.kind = "array" /\ value.items # <<>> THEN value.items[1] ELSE OffTree
HoverStep(value, seg) ==
    LET named == IF NamePart(seg) = <<>> THEN value ELSE AddressStep(value, NamePart(seg))
    IN  IF IndexPart(seg) = <<>> THEN named ELSE ItemOf(named)
RECURSIVE HoverAddressed(_, _)
HoverAddressed(value, segs) ==
    IF segs = <<>> \/ value = OffTree THEN value
    ELSE HoverAddressed(HoverStep(value, Head(segs)), Tail(segs))
HoverPath == \A i \in DOMAIN ask.segs : IsHoverSegment(ask.segs[i])
HasIndex == \E i \in DOMAIN ask.segs : IndexPart(ask.segs[i]) # <<>>
\* every index or wildcard is written after its array's name, as in roles[_]
IndexesAttached == \A i \in DOMAIN ask.segs : NamePart(ask.segs[i]) # <<>>
OwnTooltip(value) ==
    LET node == buildSchemaNode(value, "Input")
    IN  [type |-> formatTypeDescription(node), example |-> formatExampleValue(node),
         source |-> "Input"]

\* C14: hover of a path with an index or wildcard after an array segment goes
\* through the array's item and gives the addressed node's own type, example
\* and source
C14_IndexedHoverResolves ==
    (/\ HoverPath /\ HasIndex /\ IndexesAttached
     /\ HoverAddressed(ask.value, ask.segs) # OffTree)
        => /\ answer.tooltip = OwnTooltip(HoverAddressed(ask.value, ask.segs))
           /\ answer.hover = answer.tooltip

\* C15: a resolved array is described as array<T>, T the type of its first
\* item, and as plain array only when it is empty
C15_ArrayTypeDescription ==
    LET target == HoverAddressed(ask.value, ask.segs)
    IN  (HoverPath /\ target.kind = "array" /\ answer.tooltip # NoTooltip)
            => answer.tooltip.type =
                   IF target.items # <<>> THEN <<"array<", target.items[1].kind, ">">>
                   ELSE <<"array">>

\* input {"a": {"b": ["s", "s"]}}, hover of input.a.b
C15_Witness ==
    /\ ask.value = JObj(<<[key |-> <<"a">>,
                           val |-> JObj(<<[key |-> <<"b">>,
                                           val |-> JArr(<<JStr(<<"s">>), JStr(<<"s">>)>>)]>>)]>>)
    /\ ask.segs = <<<<"a">>, <<"b">>>>
    /\ answer.tooltip.type = <<"array<", "string", ">">>
    /\ answer.hover = answer.tooltip

\* a node describes a value: its type, its example for a leaf, its children
\* for an object, and for an array the description of the first item
RECURSIVE Describes(_, _)
Describes(node, value) ==
    /\ node.type = value.kind
    /\ value.kind \in {"number", "string", "boolean"} => node.example = value
    /\ value.kind = "object" =>
           /\ Len(node.children) = Len(value.members)
           /\ \A i \in DOMAIN value.members :
                 /\ node.children[i].key = value.members[i].key
                 /\ Describes(node.children[i].node, value.members[i].val)
    /\ value.kind = "array" =>
           IF value.items = <<>> THEN "arrayItemType" \notin DOMAIN node
           ELSE "arrayItemType" \in DOMAIN node /\ Describes(node.arrayItemType, value.items[1])

\* C22: the arrayItemType of every non-empty array is the schema of its first
\* element, whatever follows it: arrays that share the first element share
\* the arrayItemType
C22_ItemTypeFromFirstElement ==
    /\ Describes(ask.context.input, ask.value)
    /\ (ask.value.kind = "array" /\ ask.value.items # <<>>) =>
           \A later \in LeafRows(MaxItems - 1) :
               buildSchemaNode(JArr(<<ask.value.items[1]>> \o later), "Input").arrayItemType
                   = ask.context.input.arrayItemType

\* [{"a": ...}, "s"]: an object first, a string after it
C22_Witness ==
    /\ ask.value.kind = "array" /\ Len(ask.value.items) = 2
    /\ ask.value.items[1].kind = "object" /\ ask.value.items[1].members # <<>>
    /\ ask.value.items[2].kind = "string"
    /\ ask.context.input.arrayItemType.type = "object"

----------------------------------------------------------------------------
(* lang-rego/highlight.js: regoCompletionSource, asked while a line of the   *)
(* policy is typed.  The built-in functions of capabilities.json are not     *)
(* among the sources; allCompletions holds the keyword entries.              *)

keywordCompletions ==
    <<[label |-> <<"p", "a", "c", "k", "a", "g", "e">>, type |-> "keyword"],
      [label |-> <<"i", "m", "p", "o", "r", "t">>, type |-> "keyword"],
      [label |-> <<"d", "e", "f", "a", "u", "l", "t">>, type |-> "keyword"],
      [label |-> <<"s", "o", "m", "e">>, type |-> "keyword"],
      [label |-> <<"e", "v", "e", "r", "y">>, type |-> "keyword"],
      [label |-> <<"i", "f">>, type |-> "keyword"],
      [label |-> <<"e", "l", "s", "e">>, type |-> "keyword"],
      [label |-> <<"c", "o", "n", "t", "a", "i", "n", "s">>, type |-> "keyword"],
      [label |-> <<"w", "i", "t", "h">>, type |-> "keyword"],
      [label |-> <<"i", "n">>, type |-> "keyword"],
      [label |-> <<"n", "o", "t">>, type |-> "keyword"],
      [label |-> <<"a", "s">>, type |-> "keyword"],
      [label |-> <<"t", "r", "u", "e">>, type |-> "constant"],
      [label |-> <<"f", "a", "l", "s", "e">>, type |-> "constant"],
      [label |-> <<"n", "u", "l", "l">>, type |-> "constant"],
      [label |-> <<"s", "e", "t">>, type |-> "function"]>>
allCompletions == keywordCompletions

\* \w
WordChars == IdentChar
EndsWith(s, w) == Len(s) >= Len(w) /\ SubSeq(s, Len(s) - Len(w) + 1, Len(s)) = w

\* textBefore.match(/(input|data)(\.[a-zA-Z_][a-zA-Z0-9_]*)*\.?$/): the offset
\* where the leftmost match starts, or NoMatch
NoMatch == 0 - 1
PathMatchStart(textBefore) ==
    LET n == Len(textBefore)
        fits(i) ==
            \E root \in {InputWord, DataWord} :
                /\ StartsWithAt(textBefore, i, root)
                /\ LET stop == DottedEnd(textBefore, i + Len(root))
                   IN  stop = n + 1 \/ (stop = n /\ textBefore[n] = ".")
        starts == {i \in 1..n : fits(i)}
    IN  IF starts = {} THEN NoMatch
        ELSE (CHOOSE i \in starts : \A j \in starts : i <= j) - 1

\* textBefore.match(/\b(inp|inpu|input|dat|data)$/): the matched word, or <<>>
RootPrefixes ==
    {<<"i", "n", "p">>, <<"i", "n", "p", "u">>, InputWord, <<"d", "a", "t">>, DataWord}
RootMatch(textBefore) ==
    LET hits == {w \in RootPrefixes :
                    /\ EndsWith(textBefore, w)
                    /\ \/ Len(textBefore) = Len(w)
                       \/ textBefore[Len(textBefore) - Len(w)] \notin WordChars}
    IN  IF hits = {} THEN <<>>
        ELSE CHOOSE w \in hits : \A v \in hits : Len(w) >= Len(v)

\* String.prototype.lastIndexOf('.'), from 0, or -1
LastDotIndex(s) ==
    LET dots == {i \in 1..Len(s) : s[i] = "."}
    IN  IF dots = {} THEN 0 - 1 ELSE (CHOOSE i \in dots : \A j \in dots : i >= j) - 1

NoResult == [kind |-> "null", from |-> 0, options |-> <<>>]
RootCompletions(context) ==
    (IF IsNull(context.input) THEN <<>>
     ELSE <<[label |-> InputWord, type |-> "variable", detail |-> <<"Input document">>,
             info |-> <<"The input document for policy evaluation">>]>>)
    \o (IF IsNull(context.data) THEN <<>>
        ELSE <<[label |-> DataWord, type |-> "variable", detail |-> <<"Data document">>,
                info |-> <<"The data document for policy evaluation">>]>>)

\* completeFromList(allCompletions)(context) of @codemirror/autocomplete: the
\* whole list when a token stands before the cursor
completeFromList(list, textBefore) ==
    IF textBefore # <<>> /\ textBefore[Len(textBefore)] \in WordChars \cup {"."}
    THEN [kind |-> "list", from |-> 0, options |-> list]
    ELSE NoResult

regoCompletionSource(nodeBefore, textBefore, context) ==
    LET pos == Len(textBefore)
        start == PathMatchStart(textBefore)
        matched == SubSeq(textBefore, start + 1, pos)
        endsInDot == matched # <<>> /\ matched[Len(matched)] = "."
        fullPath == IF endsInDot THEN SubSeq(matched, 1, Len(matched) - 1) ELSE matched
        completions == getCompletionsForPath(context, fullPath)
        rootWord == RootMatch(textBefore)
    IN  IF nodeBefore \in {"String", "RawString", "LineComment"} THEN NoResult
        ELSE IF start # NoMatch /\ Len(completions) > 0
        THEN [kind |-> "path",
              from |-> IF endsInDot THEN pos
                       ELSE pos - (Len(matched) - LastDotIndex(matched) - 1),
              options |-> [i \in DOMAIN completions |->
                              [label |-> completions[i].label,
                               type |-> completions[i].type,
                               detail |-> completions[i].detail,
                               info |-> completions[i].info]]]
        ELSE IF rootWord # <<>> /\ Len(RootCompletions(context)) > 0
        THEN [kind |-> "root", from |-> pos - Len(rootWord),
              options |-> RootCompletions(context)]
        ELSE IF nodeBefore \in {"package", "import"} THEN NoResult
        ELSE completeFromList(allCompletions, textBefore)

\* lines of a policy as they are typed
PackageWord == <<"p", "a", "c", "k", "a", "g", "e">>
CompletionLines ==
    {<<"i", "n", "p", "u", "t", ".", "a", ".">>,
     <<"d", "a", "t", "a", ".", "a">>,
     <<"x", "i", "n", "p", "u", "t">>,
     <<"x", " ", "i", "n", "p", "u", "t">>,
     <<"x", ".", "d", "a", "t">>,
     PackageWord}
IsPrefixOf(s, line) == Len(s) <= Len(line) /\ SubSeq(line, 1, Len(s)) = s
\* the name of the syntax node that ends at the cursor
NodesBefore(textBefore) ==
    {"Identifier", "String", "LineComment"}
        \cup (IF EndsWith(textBefore, PackageWord) THEN {"package"} ELSE {})
\* data contexts the editor may hold
CompletionContexts ==
    {[input |-> i, data |-> d] :
        i \in {NoSchema} \cup {buildSchemaNode(v, "Input") :
                 v \in {JObj(<<>>), JObj(<<[key |-> <<"a">>, val |-> JNum(1)]>>),
                        JObj(<<[key |-> <<"a">>,
                                val |-> JObj(<<[key |-> <<"b">>, val |-> JNum(1)]>>)]>>)}},
        d \in {NoSchema, buildSchemaNode(JObj(<<[key |-> <<"b">>, val |-> JStr(<<"s">>)]>>),
                                         "Data")}}

Completing(nodeBefore, textBefore, context) ==
    [nodeBefore |-> nodeBefore, textBefore |-> textBefore, context |-> context]
Completed(q) == regoCompletionSource(q.nodeBefore, q.textBefore, q.context)

InitComplete ==
    /\ now = AtRest /\ doc = AtRest /\ docVer = AtRest /\ lintTime = AtRest
    /\ set = AtRest /\ timeout = AtRest /\ calls = AtRest /\ nextCall = AtRest
    /\ markers = AtRest /\ lintDiagnostics = AtRest /\ hist = AtRest
    /\ tokens = AtRest /\ tree = AtRest
    /\ files = AtRest /\ run = AtRest
    /\ proc = AtRest /\ lint = AtRest
    /\ jsonc = AtRest /\ clean = AtRest
    /\ gh = AtRest /\ pub = AtRest
    /\ selected = AtRest /\ loading = AtRest /\ activePolicyContent = AtRest /\ stored = AtRest
    /\ docs = AtRest /\ renamed = AtRest
    /\ touched = AtRest
    /\ dataPanel = AtRest /\ inserted = AtRest
    /\ dateNow = AtRest /\ shares = AtRest /\ got = AtRest
    /\ mapDoc = AtRest /\ mapViolations = AtRest /\ mapOut = AtRest
    /\ inputBuf = AtRest /\ dataBuf = AtRest /\ settings = AtRest /\ viewField = AtRest
    /\ text = AtRest /\ typed = AtRest /\ dataContext = AtRest /\ schemaOut = AtRest
    /\ \E c \in CompletionContexts : ask = Completing("Identifier", <<>>, c)
    /\ answer = Completed(ask)

\* a character typed on the line; the completion source runs on the new text
TypeChar ==
    /\ \E line \in CompletionLines :
          /\ IsPrefixOf(ask.textBefore, line) /\ ask.textBefore # line
          /\ LET t == SubSeq(line, 1, Len(ask.textBefore) + 1)
             IN  \E n \in NodesBefore(t) : ask' = Completing(n, t, ask.context)
    /\ answer' = Completed(ask')
    /\ UNCHANGED <<lintVars, mapVars, ctxVars, schemaVars, parseVars, verVars, regalVars, stripVars, pubVars, policyVars, fsVars, storeVars, panelVars, shareVars>>

NextComplete == TypeChar

SpecComplete == InitComplete /\ [][NextComplete]_vars

OptionLabels(result) == [i \in DOMAIN result.options |-> result.options[i].label]

\* C13: in code, with a schema for some root, when the text before the cursor
\* ends in 'inp', 'inpu', 'input', 'dat' or 'data' standing alone, the options
\* are the roots that have a schema, and nothing else
C13_RootCompletionsOnly ==
    (/\ ask.nodeBefore = "Identifier"
     /\ RootMatch(ask.textBefore) # <<>>
     /\ \/ ~IsNull(ask.context.input)
        \/ ~IsNull(ask.context.data))
        => OptionLabels(answer) =
               (IF IsNull(ask.context.input) THEN <<>> ELSE <<InputWord>>)
                   \o (IF IsNull(ask.context.data) THEN <<>> ELSE <<DataWord>>)

----------------------------------------------------------------------------
(* The expression grammar of lang-rego/syntax.grammar, as the grammar guide  *)
(* and the specification describe it: the precedence levels of the guide's   *)
(* table, every binary level left-associative, prefix operators binding      *)
(* tightest.  A syntax node is [kind, op, at, kids]; `at` is the offset of   *)
(* its operator or operand in the token stream.                              *)

MaxOps == 3

UnaryOps == {"-", "!"}
BinaryOps == {"*", "+", "-", "==", "&", ":="}
Operand == "x"

LevelFlat(op) == 1

\* the guide's precedence table, loosest (1) to tightest
Level(op) ==
    CASE op \in {":=", "="} -> 1
      [] op \in {"&", "|"} -> 2
      [] op \in {"==", "!=", "<", "<=", ">", ">="} -> 3
      [] op \in {"+", "-"} -> 4
      [] op \in {"*", "/", "%"} -> 5

Leaf(kind, at) == [kind |-> kind, op |-> "", at |-> at, kids |-> <<>>]
Parsed(node, next) == [node |-> node, next |-> next]

\* prefix operators apply to the nearest expression to their right
RECURSIVE ParseUnary(_, _)
ParseUnary(toks, i) ==
    IF i > Len(toks) THEN Parsed(Leaf("Error", i), i)
    ELSE IF toks[i] \in UnaryOps
    THEN LET r == ParseUnary(toks, i + 1)
         IN  Parsed([kind |-> "UnaryExpression", op |-> toks[i], at |-> i,
                     kids |-> <<r.node>>], r.next)
    ELSE IF toks[i] = Operand THEN Parsed(Leaf("Operand", i), i + 1)
    ELSE Parsed(Leaf("Error", i), i)

\* an operand, then every operator of at least minLevel with its right side
\* parsed one level tighter (left-associative)
RECURSIVE ParseBinary(_, _, _)
RECURSIVE Climb(_, _, _, _)
Climb(toks, left, i, minLevel) ==
    IF i <= Len(toks) /\ toks[i] \in BinaryOps /\ Level(toks[i]) >= minLevel
    THEN LET r == ParseBinary(toks, i + 1, Level(toks[i]) + 1)
         IN  Climb(toks, [kind |-> "BinaryExpression", op |-> toks[i], at |-> i,
                          kids |-> <<left, r.node>>], r.next, minLevel)
    ELSE Parsed(left, i)
ParseBinary(toks, i, minLevel) ==
    LET l == ParseUnary(toks, i)
    IN  Climb(toks, l.node, l.next, minLevel)

ParseExpression(toks) == ParseBinary(toks, 1, 1).node

\* the binary operators typed so far
OperatorCount(toks) ==
    Cardinality({i \in 1..Len(toks) : toks[i] \in BinaryOps /\ i > 1 /\ toks[i - 1] = Operand})
EndsInOperand(toks) == toks # <<>> /\ toks[Len(toks)] = Operand

InitExpr ==
    /\ now = AtRest /\ doc = AtRest /\ docVer = AtRest /\ lintTime = AtRest
    /\ set = AtRest /\ timeout = AtRest /\ calls = AtRest /\ nextCall = AtRest
    /\ markers = AtRest /\ lintDiagnostics = AtRest /\ hist = AtRest
    /\ files = AtRest /\ run = AtRest
    /\ proc = AtRest /\ lint = AtRest
    /\ jsonc = AtRest /\ clean = AtRest
    /\ gh = AtRest /\ pub = AtRest
    /\ selected = AtRest /\ loading = AtRest /\ activePolicyContent = AtRest /\ stored = AtRest
    /\ docs = AtRest /\ renamed = AtRest
    /\ touched = AtRest
    /\ dataPanel = AtRest /\ inserted = AtRest
    /\ dateNow = AtRest /\ shares = AtRest /\ got = AtRest
    /\ mapDoc = AtRest /\ mapViolations = AtRest /\ mapOut = AtRest
    /\ inputBuf = AtRest /\ dataBuf = AtRest /\ settings = AtRest /\ viewField = AtRest
    /\ text = AtRest /\ typed = AtRest /\ dataContext = AtRest /\ schemaOut = AtRest
    /\ ask = AtRest /\ answer = AtRest
    /\ tokens = <<>>
    /\ tree = ParseExpression(tokens)

\* an operand is typed, bare or behind a unary minus; the buffer is parsed again
TypeOperand ==
    /\ ~EndsInOperand(tokens)
    /\ \E t \in {<<Operand>>, <<"-", Operand>>} : tokens' = tokens \o t
    /\ tree' = ParseExpression(tokens')
    /\ UNCHANGED <<lintVars, mapVars, ctxVars, schemaVars, askVars, verVars, regalVars, stripVars, pubVars, policyVars, fsVars, storeVars, panelVars, shareVars>>

TypeOperator ==
    /\ EndsInOperand(tokens)
    /\ OperatorCount(tokens) < MaxOps
    /\ \E op \in BinaryOps : tokens' = Append(tokens, op)
    /\ tree' = ParseExpression(tokens')
    /\ UNCHANGED <<lintVars, mapVars, ctxVars, schemaVars, askVars, verVars, regalVars, stripVars, pubVars, policyVars, fsVars, storeVars, panelVars, shareVars>>

NextExpr == TypeOperand \/ TypeOperator

SpecExpr == InitExpr /\ [][NextExpr]_vars

RECURSIVE NodesOf(_)
NodesOf(node) == {node} \cup UNION {NodesOf(node.kids[k]) : k \in DOMAIN node.kids}
BinaryNodes == {n \in NodesOf(tree) : n.kind = "BinaryExpression"}
\* two binary operators with one operand between them
Neighbours(a, b) ==
    a.at < b.at /\ ~\E c \in BinaryNodes : a.at < c.at /\ c.at < b.at
\* how tightly the claim ranks an operator's level, 1 the loosest
Tightness(op) ==
    CASE op = ":=" -> 1 [] op = "&" -> 2 [] op = "==" -> 3
      [] op \in {"+", "-"} -> 4 [] op = "*" -> 5

----------------------------------------------------------------------------
(* The brace disambiguation of the grammar, as the guide (The Ambiguity      *)
(* Problem, Comprehensions) and the specification's 4.2 describe it.  The    *)
(* content of a brace group is a sequence of items: a token, or a nested     *)
(* group with its own tokens.                                                *)

MaxContent == 3

ContentTokens == {"x", ":", ",", "|", "some"}
StatementKeywords == {"some", "not", "with"}
NestedGroups ==
    {<<"{", "x", ":", "x", "}">>, <<"[", "x", "|", "x", "]">>, <<"{", "x", ",", "x", "}">>,
     <<"[", "x", "]">>, <<"{", "{", "x", ":", "x", "}", "|", "x", "}">>}
Item(tok, inner) == [tok |-> tok, inner |-> inner]

\* the token stream between the outer braces
RECURSIVE Flatten(_)
Flatten(items) ==
    IF items = <<>> THEN <<>>
    ELSE (IF Head(items).tok = "group" THEN Head(items).inner ELSE <<Head(items).tok>>)
             \o Flatten(Tail(items))

AllTokens(toks, i, depth) ==
    [k \in 1..Len(toks) |-> IF toks[k] \in {"{", "["} THEN "group" ELSE toks[k]]

\* the tokens not nested inside a further brace or bracket, each nested group
\* standing as one expression
RECURSIVE TopLevelTokens(_, _, _)
TopLevelTokens(toks, i, depth) ==
    IF i > Len(toks) THEN <<>>
    ELSE IF toks[i] \in {"{", "["}
    THEN (IF depth = 0 THEN <<"group">> ELSE <<>>) \o TopLevelTokens(toks, i + 1, depth + 1)
    ELSE IF toks[i] \in {"}", "]"} THEN TopLevelTokens(toks, i + 1, Max(depth - 1, 0))
    ELSE (IF depth = 0 THEN <<toks[i]>> ELSE <<>>) \o TopLevelTokens(toks, i + 1, depth)

IsExpressionToken(t) == t \in {"x", "group"}
HasPair(top) ==
    \E i \in 2..(Len(top) - 1) :
        top[i] = ":" /\ IsExpressionToken(top[i - 1]) /\ IsExpressionToken(top[i + 1])
Occurs(top, t) == \E i \in DOMAIN top : top[i] = t
IsExpressionList(top) ==
    /\ Occurs(top, ",") /\ Len(top) % 2 = 1
    /\ \A i \in DOMAIN top : IF i % 2 = 1 THEN IsExpressionToken(top[i]) ELSE top[i] = ","
FirstOf(top, t) == CHOOSE i \in DOMAIN top : top[i] = t /\ \A j \in 1..(i - 1) : top[j] # t

\* a top-level '|' makes a comprehension; then the three rules in order
BraceKind(toks) ==
    LET top == TopLevelTokens(toks, 1, 0)
    IN  IF Occurs(top, "|")
        THEN IF Occurs(SubSeq(top, 1, FirstOf(top, "|") - 1), ":")
             THEN "ObjectComprehension" ELSE "SetComprehension"
        ELSE IF HasPair(top) THEN "Object"
        ELSE IF IsExpressionList(top) /\ ~\E k \in StatementKeywords : Occurs(top, k) THEN "Set"
        ELSE "Body"

InitBrace ==
    /\ now = AtRest /\ doc = AtRest /\ docVer = AtRest /\ lintTime = AtRest
    /\ set = AtRest /\ timeout = AtRest /\ calls = AtRest /\ nextCall = AtRest
    /\ markers = AtRest /\ lintDiagnostics = AtRest /\ hist = AtRest
    /\ files = AtRest /\ run = AtRest
    /\ proc = AtRest /\ lint = AtRest
    /\ jsonc = AtRest /\ clean = AtRest
    /\ gh = AtRest /\ pub = AtRest
    /\ selected = AtRest /\ loading = AtRest /\ activePolicyContent = AtRest /\ stored = AtRest
    /\ docs = AtRest /\ renamed = AtRest
    /\ touched = AtRest
    /\ dataPanel = AtRest /\ inserted = AtRest
    /\ dateNow = AtRest /\ shares = AtRest /\ got = AtRest
    /\ mapDoc = AtRest /\ mapViolations = AtRest /\ mapOut = AtRest
    /\ inputBuf = AtRest /\ dataBuf = AtRest /\ settings = AtRest /\ viewField = AtRest
    /\ text = AtRest /\ typed = AtRest /\ dataContext = AtRest /\ schemaOut = AtRest
    /\ ask = AtRest /\ answer = AtRest
    /\ tokens = <<>>
    /\ tree = BraceKind(Flatten(tokens))

\* a token typed at the end of the brace's content
TypeToken ==
    /\ Len(tokens) < MaxContent
    /\ \E t \in ContentTokens : tokens' = Append(tokens, Item(t, <<>>))
    /\ tree' = BraceKind(Flatten(tokens'))
    /\ UNCHANGED <<lintVars, mapVars, ctxVars, schemaVars, askVars, verVars, regalVars, stripVars, pubVars, policyVars, fsVars, storeVars, panelVars, shareVars>>

\* a whole nested group typed (or pasted) at the end of the content
TypeGroup ==
    /\ Len(tokens) < MaxContent
    /\ \E g \in NestedGroups : tokens' = Append(tokens, Item("group", g))
    /\ tree' = BraceKind(Flatten(tokens'))
    /\ UNCHANGED <<lintVars, mapVars, ctxVars, schemaVars, askVars, verVars, regalVars, stripVars, pubVars, policyVars, fsVars, storeVars, panelVars, shareVars>>

NextBrace == TypeToken \/ TypeGroup

SpecBrace == InitBrace /\ [][NextBrace]_vars

\* ---- the classification read off the items themselves
TopItems == [i \in DOMAIN tokens |-> tokens[i].tok]
ItemIsExpression(i) == TopItems[i] \in {"x", "group"}
TopPair ==
    \E i \in 2..(Len(TopItems) - 1) :
        TopItems[i] = ":" /\ ItemIsExpression(i - 1) /\ ItemIsExpression(i + 1)
TopHas(t) == \E i \in DOMAIN TopItems : TopItems[i] = t
TopList ==
    /\ TopHas(",") /\ ~TopHas("some") /\ Len(TopItems) % 2 = 1
    /\ \A i \in DOMAIN TopItems : (i % 2 = 0) <=> (TopItems[i] = ",")
    /\ \A i \in DOMAIN TopItems : (i % 2 = 1) => ItemIsExpression(i)

----------------------------------------------------------------------------
(* The style mapper: the table of highlight.js handed to styleTags, and the  *)
(* rule styleTags picks for a node from the node's name and its ancestors.   *)

MaxDepth == 3

StyleRule(context, names, tag) == [context |-> context, names |-> names, tag |-> tag]

regoHighlightingNoPaths ==
    <<StyleRule(<<>>, {"package", "import", "default"}, "keyword"),
      StyleRule(<<>>, {"Number"}, "number"),
      StyleRule(<<>>, {"String"}, "string"),
      StyleRule(<<>>, {"Identifier"}, "variableName"),
      StyleRule(<<>>, {"LineComment"}, "lineComment")>>

regoHighlighting ==
    <<StyleRule(<<>>, {"package", "import", "default"}, "keyword"),
      StyleRule(<<>>, {"some", "every", "if", "else", "contains", "with", "as", "in", "not"},
                "controlKeyword"),
      StyleRule(<<>>, {"true", "false"}, "bool"),
      StyleRule(<<>>, {"null"}, "null"),
      StyleRule(<<>>, {"Number"}, "number"),
      StyleRule(<<>>, {"String"}, "string"),
      StyleRule(<<>>, {"RawString"}, "special(string)"),
      StyleRule(<<>>, {"Identifier"}, "variableName"),
      StyleRule(<<"CallExpression">>, {"Identifier"}, "function(variableName)"),
      StyleRule(<<"RuleHead">>, {"Identifier"}, "function(definition(variableName))"),
      StyleRule(<<"PackageDeclaration">>, {"Identifier"}, "namespace"),
      StyleRule(<<>>, {"LineComment"}, "lineComment"),
      StyleRule(<<>>, {"ArithOp", "LogicOp", "CompareOp", "AssignOp"}, "operator"),
      StyleRule(<<>>, {"(", ")"}, "paren"),
      StyleRule(<<>>, {"[", "]"}, "squareBracket"),
      StyleRule(<<>>, {"{", "}"}, "brace"),
      StyleRule(<<>>, {"."}, "derefOperator"),
      StyleRule(<<>>, {",", "|"}, "separator")>>

\* a rule's context names the node's nearest ancestors, innermost last
MatchContext(context, path) ==
    /\ Len(context) <= Len(path)
    /\ SubSeq(path, Len(path) - Len(context) + 1, Len(path)) = context

\* styleTags keeps a node's rules deepest context first; the first rule whose
\* context matches decides
NoTag == "none"
StyleOf(kind, path) ==
    LET fit == {i \in DOMAIN regoHighlighting :
                    /\ kind \in regoHighlighting[i].names
                    /\ MatchContext(regoHighlighting[i].context, path)}
    IN  IF fit = {} THEN NoTag
        ELSE regoHighlighting[CHOOSE i \in fit :
                 \A j \in fit : Len(regoHighlighting[j].context) <= Len(regoHighlighting[i].context)].tag

InnerKinds == {"PackageDeclaration", "Rule", "RuleHead", "Body", "CallExpression", "Ref"}
LeafKinds == {"Identifier", "Number", "package"}
NoLeaf == [kind |-> "none", tag |-> NoTag]

InitStyle ==
    /\ now = AtRest /\ doc = AtRest /\ docVer = AtRest /\ lintTime = AtRest
    /\ set = AtRest /\ timeout = AtRest /\ calls = AtRest /\ nextCall = AtRest
    /\ markers = AtRest /\ lintDiagnostics = AtRest /\ hist = AtRest
    /\ files = AtRest /\ run = AtRest
    /\ proc = AtRest /\ lint = AtRest
    /\ jsonc = AtRest /\ clean = AtRest
    /\ gh = AtRest /\ pub = AtRest
    /\ selected = AtRest /\ loading = AtRest /\ activePolicyContent = AtRest /\ stored = AtRest
    /\ docs = AtRest /\ renamed = AtRest
    /\ touched = AtRest
    /\ dataPanel = AtRest /\ inserted = AtRest
    /\ dateNow = AtRest /\ shares = AtRest /\ got = AtRest
    /\ mapDoc = AtRest /\ mapViolations = AtRest /\ mapOut = AtRest
    /\ inputBuf = AtRest /\ dataBuf = AtRest /\ settings = AtRest /\ viewField = AtRest
    /\ text = AtRest /\ typed = AtRest /\ dataContext = AtRest /\ schemaOut = AtRest
    /\ tokens = AtRest /\ tree = AtRest
    /\ ask = <<"Script">>
    /\ answer = NoLeaf

\* the highlighter enters a child node
Descend ==
    /\ answer = NoLeaf
    /\ Len(ask) <= MaxDepth
    /\ \E k \in InnerKinds : ask' = Append(ask, k)
    /\ UNCHANGED <<answer, lintVars, mapVars, ctxVars, schemaVars, parseVars, verVars, regalVars, stripVars, pubVars, policyVars, fsVars, storeVars, panelVars, shareVars>>

\* the highlighter reaches a leaf and gives it its tag
Highlight ==
    /\ answer = NoLeaf
    /\ \E k \in LeafKinds : answer' = [kind |-> k, tag |-> StyleOf(k, ask)]
    /\ UNCHANGED <<ask, lintVars, mapVars, ctxVars, schemaVars, parseVars, verVars, regalVars, stripVars, pubVars, policyVars, fsVars, storeVars, panelVars, shareVars>>

NextStyle == Descend \/ Highlight

SpecStyle == InitStyle /\ [][NextStyle]_vars

Parent == ask[Len(ask)]

\* C18: an Identifier's tag is decided by its parent alone: function
\* definition under RuleHead, function call under CallExpression, namespace
\* under PackageDeclaration, plain variable name anywhere else
C18_IdentifierTagByParent ==
    answer.kind = "Identifier" =>
        answer.tag = CASE Parent = "RuleHead" -> "function(definition(variableName))"
                       [] Parent = "CallExpression" -> "function(variableName)"
                       [] Parent = "PackageDeclaration" -> "namespace"
                       [] OTHER -> "variableName"

\* the head of a rule nested below a package declaration
C18_Witness ==
    /\ answer.kind = "Identifier"
    /\ Len(ask) = MaxDepth + 1
    /\ Parent = "RuleHead" /\ ask[Len(ask) - 1] = "PackageDeclaration"
    /\ answer.tag = "function(definition(variableName))"

----------------------------------------------------------------------------
(* The version management script, scripts/version.js as listed in            *)
(* VERSION_MANAGEMENT.md.  A version string is text; a Number is the decimal *)
(* digits of the integer the IEEE-754 double holds (no leading zeros).       *)

MaxPart == 1
MaxRuns == 3

RECURSIVE StripZeros(_)
StripZeros(ds) == IF Len(ds) > 1 /\ Head(ds) = "0" THEN StripZeros(Tail(ds)) ELSE ds

RECURSIVE LexLess(_, _)
LexLess(a, b) ==
    IF a = <<>> THEN FALSE
    ELSE IF Head(a) # Head(b) THEN DigitVal(Head(a)) < DigitVal(Head(b))
    ELSE LexLess(Tail(a), Tail(b))
NumLess(a, b) == Len(a) < Len(b) \/ (Len(a) = Len(b) /\ LexLess(a, b))

Front(ds) == SubSeq(ds, 1, Len(ds) - 1)
Last(ds) == ds[Len(ds)]

\* the integer after, and the integer before a positive one, exactly
RECURSIVE IncDigits(_)
IncDigits(ds) ==
    IF ds = <<>> THEN <<"1">>
    ELSE IF Last(ds) = "9" THEN IncDigits(Front(ds)) \o <<"0">>
    ELSE Front(ds) \o <<Digits[DigitVal(Last(ds)) + 2]>>
RECURSIVE DecDigits(_)
DecDigits(ds) ==
    IF Last(ds) = "0" THEN StripZeros(DecDigits(Front(ds)) \o <<"9">>)
    ELSE StripZeros(Front(ds) \o <<Digits[DigitVal(Last(ds))]>>)

\* 2^53: from here to 2^54 a double holds the even integers only
TwoTo53 == <<"9", "0", "0", "7", "1", "9", "9", "2", "5", "4", "7", "4", "0", "9", "9", "2">>
LastTwo(ds) == 10 * DigitVal(ds[Len(ds) - 1]) + DigitVal(Last(ds))

\* the double nearest to an integer below 2^54, ties to the even mantissa
ToDouble(ds) ==
    IF NumLess(ds, TwoTo53) \/ DigitVal(Last(ds)) % 2 = 0 THEN ds
    ELSE IF LastTwo(DecDigits(ds)) % 4 = 0 THEN DecDigits(ds)
    ELSE IncDigits(ds)

\* parseInt(match[i], 10) of a run of digits
parseInt10(ds) == ToDouble(StripZeros(ds))
\* parsed.x += 1
PlusOne(n) == ToDouble(IncDigits(n))

VersionError(msg) == [ok |-> FALSE, value |-> <<>>, error |-> msg]
VersionOk(chars) == [ok |-> TRUE, value |-> chars, error |-> ""]

\* versionString.match(/^(\d+)\.(\d+)\.(\d+)$/)
MatchesVersion(versionString) ==
    LET parts == SplitDots(versionString)
    IN  /\ Len(parts) = 3
        /\ \A i \in 1..3 : parts[i] # <<>> /\ \A k \in DOMAIN parts[i] : IsDigit(parts[i][k])

parseVersion(versionString) ==
    LET parts == SplitDots(versionString)
    IN  [major |-> parseInt10(parts[1]), minor |-> parseInt10(parts[2]),
         patch |-> parseInt10(parts[3])]

formatVersion(v) == v.major \o <<".">> \o v.minor \o <<".">> \o v.patch

BumpTypes == {"major", "minor", "patch"}
Zero == <<"0">>

bumpVersion(version, type) ==
    IF ~MatchesVersion(version) THEN VersionError("Invalid version format")
    ELSE LET parsed == parseVersion(version)
         IN  CASE type = "major" ->
                    VersionOk(formatVersion([major |-> PlusOne(parsed.major), minor |-> Zero, patch |-> Zero]))
               [] type = "minor" ->
                    VersionOk(formatVersion([parsed EXCEPT !.minor = PlusOne(parsed.minor), !.patch = Zero]))
               [] type = "patch" ->
                    VersionOk(formatVersion([parsed EXCEPT !.patch = PlusOne(parsed.patch)]))
               [] OTHER -> VersionError("Invalid bump type")

\* ---- bumpVersion called on its own
MaxSafe == DecDigits(TwoTo53)
Parts ==
    {NatToChars(n) : n \in 0..MaxPart}
        \cup {<<"9">>, <<"0", "9">>, <<"9", "9">>, MaxSafe, TwoTo53}
WellFormedVersions == {Join(<<a, b, c>>, <<".">>) : a, b, c \in Parts}
MalformedVersions ==
    {<<>>, <<"1", ".", "2">>, <<"1", ".", "2", ".", "3", ".", "4">>, <<"v", "1", ".", "2", ".", "3">>,
     <<"1", ".", "2", ".", "x">>, <<"1", ".", ".", "3">>, <<"1", ".", "2", ".", "3", "-", "r", "c">>,
     <<"1", ".", "2", ".", "3", "\n">>}
TypesAsked == BumpTypes \cup {"Patch", "build", ""}
NotCalled == VersionError("not called")

InitBump ==
    /\ now = AtRest /\ doc = AtRest /\ docVer = AtRest /\ lintTime = AtRest
    /\ set = AtRest /\ timeout = AtRest /\ calls = AtRest /\ nextCall = AtRest
    /\ markers = AtRest /\ lintDiagnostics = AtRest /\ hist = AtRest
    /\ proc = AtRest /\ lint = AtRest
    /\ jsonc = AtRest /\ clean = AtRest
    /\ gh = AtRest /\ pub = AtRest
    /\ selected = AtRest /\ loading = AtRest /\ activePolicyContent = AtRest /\ stored = AtRest
    /\ docs = AtRest /\ renamed = AtRest
    /\ touched = AtRest
    /\ dataPanel = AtRest /\ inserted = AtRest
    /\ dateNow = AtRest /\ shares = AtRest /\ got = AtRest
    /\ mapDoc = AtRest /\ mapViolations = AtRest /\ mapOut = AtRest
    /\ inputBuf = AtRest /\ dataBuf = AtRest /\ settings = AtRest /\ viewField = AtRest
    /\ text = AtRest /\ typed = AtRest /\ dataContext = AtRest /\ schemaOut = AtRest
    /\ ask = AtRest /\ answer = AtRest
    /\ tokens = AtRest /\ tree = AtRest
    /\ files = AtRest
    /\ \E v \in WellFormedVersions \cup MalformedVersions, t \in TypesAsked :
          run = [version |-> v, type |-> t, called |-> FALSE, result |-> NotCalled]

CallBumpVersion ==
    /\ ~run.called
    /\ run' = [run EXCEPT !.called = TRUE, !.result = bumpVersion(run.version, run.type)]
    /\ UNCHANGED <<files, lintVars, mapVars, ctxVars, schemaVars, askVars, parseVars, regalVars, stripVars, pubVars, policyVars, fsVars, storeVars, panelVars, shareVars>>

NextBump == CallBumpVersion

SpecBump == InitBump /\ [][NextBump]_vars

\* ---- what the claim expects, in exact integers
Component(i) == StripZeros(SplitDots(run.version)[i])
IsDigitsDotted ==
    LET parts == SplitDots(run.version)
    IN  Len(parts) = 3 /\ \A i \in 1..3 : Len(parts[i]) > 0 /\ \A k \in 1..Len(parts[i]) : parts[i][k] \in {Digits[d] : d \in 1..10}
Dotted(a, b, c) == a \o <<".">> \o b \o <<".">> \o c
Bumped ==
    CASE run.type = "patch" -> Dotted(Component(1), Component(2), IncDigits(Component(3)))
      [] run.type = "minor" -> Dotted(Component(1), IncDigits(Component(2)), <<"0">>)
      [] run.type = "major" -> Dotted(IncDigits(Component(1)), <<"0">>, <<"0">>)

\* C20: bumpVersion returns M.m.(p+1), M.(m+1).0 or (M+1).0.0 for every
\* version of three runs of digits, and raises an error for any other bump
\* type or version string
C20_BumpArithmetic ==
    run.called =>
        IF IsDigitsDotted /\ run.type \in {"patch", "minor", "major"}
        THEN run.result.ok /\ run.result.value = Bumped
        ELSE ~run.result.ok

----------------------------------------------------------------------------
(* A run of the script over the files of the repository.  A file is sound    *)
(* when the script can read what it looks for in it (valid JSON, the badge,  *)
(* the CURRENT_VERSION line) and holds one version text.                     *)

VERSION_FILE == "version.json"
FRONTEND_PACKAGE_JSON == "frontend/package.json"
APP_HEADER_FILE == "frontend/components/header/app-header.tsx"
SETTINGS_CONTEXT_FILE == "frontend/lib/settings-context.tsx"
BACKEND_VERSION_FILE == "backend/src/routes/version.js"
ROOT_PACKAGE_JSON == "package.json"

\* "Files Synchronized", 1 to 6
SynchronizedFiles ==
    {VERSION_FILE, FRONTEND_PACKAGE_JSON, APP_HEADER_FILE, SETTINGS_CONTEXT_FILE,
     BACKEND_VERSION_FILE, ROOT_PACKAGE_JSON}

\* the updaters in the order updateAllFiles calls them
UpdateOrder ==
    <<VERSION_FILE, FRONTEND_PACKAGE_JSON, APP_HEADER_FILE, SETTINGS_CONTEXT_FILE,
      BACKEND_VERSION_FILE>>

Holding(version, sound) == [version |-> version, sound |-> sound]

\* the updaters that run before one throws: version.json is overwritten
\* without being read, every other file is read first
Updated ==
    LET stops == {i \in 2..Len(UpdateOrder) : ~files[UpdateOrder[i]].sound}
    IN  IF stops = {} THEN Len(UpdateOrder)
        ELSE (CHOOSE i \in stops : \A j \in stops : i <= j) - 1

updateAllFiles(newVersion) ==
    [f \in SynchronizedFiles |->
        IF \E i \in 1..Updated : UpdateOrder[i] = f THEN Holding(newVersion, TRUE) ELSE files[f]]

\* args[1].toLowerCase()
toLowerCase(word) ==
    CASE word = "PATCH" -> "patch"
      [] word = "Minor" -> "minor"
      [] OTHER -> word

RunOutcome(count, status, newVersion) == [count |-> count, status |-> status, newVersion |-> newVersion]
ReleaseVersion == <<"2", ".", "0", ".", "1">>
ShortVersion == <<"2", ".", "0">>
BumpWords == {"patch", "minor", "major", "PATCH", "build"}

InitVersion ==
    /\ now = AtRest /\ doc = AtRest /\ docVer = AtRest /\ lintTime = AtRest
    /\ set = AtRest /\ timeout = AtRest /\ calls = AtRest /\ nextCall = AtRest
    /\ markers = AtRest /\ lintDiagnostics = AtRest /\ hist = AtRest
    /\ proc = AtRest /\ lint = AtRest
    /\ jsonc = AtRest /\ clean = AtRest
    /\ gh = AtRest /\ pub = AtRest
    /\ selected = AtRest /\ loading = AtRest /\ activePolicyContent = AtRest /\ stored = AtRest
    /\ docs = AtRest /\ renamed = AtRest
    /\ touched = AtRest
    /\ dataPanel = AtRest /\ inserted = AtRest
    /\ dateNow = AtRest /\ shares = AtRest /\ got = AtRest
    /\ mapDoc = AtRest /\ mapViolations = AtRest /\ mapOut = AtRest
    /\ inputBuf = AtRest /\ dataBuf = AtRest /\ settings = AtRest /\ viewField = AtRest
    /\ text = AtRest /\ typed = AtRest /\ dataContext = AtRest /\ schemaOut = AtRest
    /\ ask = AtRest /\ answer = AtRest
    /\ tokens = AtRest /\ tree = AtRest
    /\ \E v \in {ReleaseVersion, ShortVersion}, pkg, badge \in BOOLEAN :
          files = [f \in SynchronizedFiles |->
                      CASE f = VERSION_FILE -> Holding(v, TRUE)
                        [] f = FRONTEND_PACKAGE_JSON -> Holding(ReleaseVersion, pkg)
                        [] f = APP_HEADER_FILE -> Holding(ShortVersion, badge)
                        [] OTHER -> Holding(ReleaseVersion, TRUE)]
    /\ run = RunOutcome(0, "none", <<>>)

\* node scripts/version.js bump <word>
Bump ==
    /\ run.count < MaxRuns
    /\ \E word \in BumpWords :
          LET bumpType == toLowerCase(word)
              bumped == bumpVersion(files[VERSION_FILE].version, bumpType)
          IN  IF bumpType \notin BumpTypes \/ ~files[VERSION_FILE].sound \/ ~bumped.ok
              THEN /\ run' = RunOutcome(run.count + 1, "error", <<>>)
                   /\ UNCHANGED files
              ELSE /\ files' = updateAllFiles(bumped.value)
                   /\ run' = RunOutcome(run.count + 1,
                                        IF Updated = Len(UpdateOrder) THEN "ok" ELSE "error",
                                        bumped.value)
    /\ UNCHANGED <<lintVars, mapVars, ctxVars, schemaVars, askVars, parseVars, regalVars, stripVars, pubVars, policyVars, fsVars, storeVars, panelVars, shareVars>>

\* node scripts/version.js current
Current ==
    /\ run.count < MaxRuns
    /\ run' = RunOutcome(run.count + 1, IF files[VERSION_FILE].sound THEN "shown" ELSE "error",
                         files[VERSION_FILE].version)
    /\ UNCHANGED <<files, lintVars, mapVars, ctxVars, schemaVars, askVars, parseVars, regalVars, stripVars, pubVars, policyVars, fsVars, storeVars, panelVars, shareVars>>

\* "Manual Version Updates": version.json edited by hand
EditVersionFile ==
    /\ run.count < MaxRuns
    /\ \E v \in {ReleaseVersion, ShortVersion}, sound \in BOOLEAN :
          /\ files[VERSION_FILE] # Holding(v, sound)
          /\ files' = [files EXCEPT ![VERSION_FILE] = Holding(v, sound)]
    /\ run' = RunOutcome(run.count + 1, "none", <<>>)
    /\ UNCHANGED <<lintVars, mapVars, ctxVars, schemaVars, askVars, parseVars, regalVars, stripVars, pubVars, policyVars, fsVars, storeVars, panelVars, shareVars>>

NextVersion == Bump \/ Current \/ EditVersionFile

SpecVersion == InitVersion /\ [][NextVersion]_vars

\* C19: after a successful bump the six synchronized files hold the same new
\* version
C19_SixFilesInStep ==
    run.status = "ok" =>
        \A f \in {"version.json", "frontend/package.json", "frontend/components/header/app-header.tsx",
                  "frontend/lib/settings-context.tsx", "backend/src/routes/version.js", "package.json"} :
            files[f].version = run.newVersion

----------------------------------------------------------------------------
(* backend: POST /lint (routes/policies.js) and lintPolicy                   *)
(* (services/regal.service.js) over what the regal process may do.           *)

ProcOutcome(exit, stdout, stderr) == [exit |-> exit, stdout |-> stdout, stderr |-> stderr]

\* exec's promise: resolved on exit code 0; the .catch handler otherwise
CaughtStdoutOnly(p) ==
    IF p.exit = 0 \/ p.stdout # <<>>
    THEN [thrown |-> FALSE, stdout |-> p.stdout, stderr |-> p.stderr]
    ELSE [thrown |-> TRUE, stdout |-> <<>>, stderr |-> <<>>]

Caught(p) ==
    IF p.exit = 0 THEN [thrown |-> FALSE, stdout |-> p.stdout, stderr |-> p.stderr]
    ELSE IF p.stdout # <<>> THEN [thrown |-> FALSE, stdout |-> p.stdout, stderr |-> p.stderr]
    ELSE IF p.stderr # <<>> THEN [thrown |-> FALSE, stdout |-> <<>>, stderr |-> p.stderr]
    ELSE [thrown |-> TRUE, stdout |-> <<>>, stderr |-> <<>>]

\* stderr.match(/(\d+:\d+):\s*(.+)/): group 2 of the leftmost match
RECURSIVE DigitsEnd(_, _)
DigitsEnd(t, i) == IF i <= Len(t) /\ IsDigit(t[i]) THEN DigitsEnd(t, i + 1) ELSE i
\* the offset after \d+:\d+: matched at s, or 0
PositionEnd(t, s) ==
    LET a == DigitsEnd(t, s)
        b == DigitsEnd(t, a + 1)
    IN  IF a > s /\ a <= Len(t) /\ t[a] = ":" /\ b > a + 1 /\ b <= Len(t) /\ t[b] = ":"
        THEN b + 1 ELSE 0
LineBreaks == {NL, "\r"}
\* where (.+) starts after \s* has given back what it must
MessageStarts(t, h) == {q \in h..Min(SkipWs(t, h), Len(t)) : t[q] \notin LineBreaks}
RECURSIVE LineEnd(_, _)
LineEnd(t, i) == IF i <= Len(t) /\ t[i] \notin LineBreaks THEN LineEnd(t, i + 1) ELSE i
ParseErrorDefault == <<"P", "a", "r", "s", "e", " ", "e", "r", "r", "o", "r">>
InvalidSyntax == <<"I", "n", "v", "a", "l", "i", "d", " ", "p", "o", "l", "i", "c", "y", " ", "s", "y", "n", "t", "a", "x">>
ParseErrorMessage(stderr) ==
    LET starts == {s \in 1..Len(stderr) :
                      PositionEnd(stderr, s) # 0 /\ MessageStarts(stderr, PositionEnd(stderr, s)) # {}}
    IN  IF starts = {} THEN ParseErrorDefault
        ELSE LET s == CHOOSE x \in starts : \A y \in starts : x <= y
                 from == MessageStarts(stderr, PositionEnd(stderr, s))
                 q == CHOOSE x \in from : \A y \in from : y <= x
             IN  SubSeq(stderr, q, LineEnd(stderr, q) - 1)

LintResult(violations, parseErrorNull, parseError) ==
    [thrown |-> FALSE, violations |-> violations, parseErrorNull |-> parseErrorNull,
     parseError |-> parseError]
LintThrown == [thrown |-> TRUE, violations |-> <<>>, parseErrorNull |-> TRUE, parseError |-> <<>>]

EmptyViolationsText == <<"{", "\"", "v", "i", "o", "l", "a", "t", "i", "o", "n", "s", "\"", ":", " ", "[", "]", "}">>
\* a finding as regal prints it, with the fields the model of mapToDiagnostics reads
ViolationOf(item) == Violation("", 0, 0, 0)
\* result.violations || []
ViolationsOf(val) ==
    LET hits == {i \in DOMAIN val.members : val.members[i].key = <<"v", "i", "o", "l", "a", "t", "i", "o", "n", "s">>}
    IN  IF val.kind # "object" \/ hits = {} THEN <<>>
        ELSE LET v == val.members[CHOOSE i \in hits : \A j \in hits : j <= i].val
             IN  [i \in DOMAIN v.items |-> ViolationOf(v.items[i])]

lintPolicy(p) ==
    LET out == Caught(p)
    IN  IF out.thrown THEN LintThrown
        ELSE IF out.stdout = <<>> /\ out.stderr # <<>>
        THEN LintResult(<<>>, FALSE, ParseErrorMessage(out.stderr))
        ELSE LET parsed == JsonParse(IF out.stdout = <<>> THEN EmptyViolationsText ELSE out.stdout)
             IN  IF ~parsed.ok THEN LintResult(<<>>, FALSE, InvalidSyntax)
                 ELSE IF parsed.val.kind = "null" THEN LintThrown
                 ELSE LintResult(ViolationsOf(parsed.val), TRUE, <<>>)

ExitCodes == {0, 1, 3}
StdoutTexts ==
    {<<>>, <<"{", "}">>, <<"{", "\"", "v", "i", "o", "l", "a", "t", "i", "o", "n", "s", "\"", ":", "[", "{", "}", "]", "}">>, <<"n", "u", "l", "l">>, <<"e", "r", "r", "o", "r">>, <<" ">>, <<"{", "\"", "v", "i", "o", "l", "a", "t", "i", "o", "n", "s", "\"", ":", "[", "]">>}
StderrTexts ==
    {<<>>, <<"x">>, <<"1", ":", "2", ":", " ", "e">>, <<"1", ":", "2", ":">>, <<"a", " ", "1", ":", "2", ":", " ", NL>>}

NoReply == [status |-> 0, success |-> FALSE, diagnostics |-> <<>>, violationCount |-> 0]
Received == [stage |-> "received", result |-> LintThrown, reply |-> NoReply]

InitRegal ==
    /\ now = AtRest /\ doc = AtRest /\ docVer = AtRest /\ lintTime = AtRest
    /\ set = AtRest /\ timeout = AtRest /\ calls = AtRest /\ nextCall = AtRest
    /\ markers = AtRest /\ lintDiagnostics = AtRest /\ hist = AtRest /\ mapDoc = AtRest
    /\ mapViolations = AtRest /\ mapOut = AtRest /\ inputBuf = AtRest /\ dataBuf = AtRest
    /\ settings = AtRest /\ viewField = AtRest /\ text = AtRest /\ typed = AtRest
    /\ dataContext = AtRest /\ schemaOut = AtRest /\ ask = AtRest /\ answer = AtRest
    /\ tokens = AtRest /\ tree = AtRest /\ files = AtRest /\ run = AtRest
    /\ jsonc = AtRest /\ clean = AtRest
    /\ gh = AtRest /\ pub = AtRest
    /\ selected = AtRest /\ loading = AtRest /\ activePolicyContent = AtRest /\ stored = AtRest
    /\ docs = AtRest /\ renamed = AtRest
    /\ touched = AtRest
    /\ dataPanel = AtRest /\ inserted = AtRest
    /\ dateNow = AtRest /\ shares = AtRest /\ got = AtRest
    /\ \E e \in ExitCodes, o \in StdoutTexts, r \in StderrTexts : proc = ProcOutcome(e, o, r)
    /\ lint = Received

\* const result = await regalService.lintPolicy(policy)
RunLintPolicy ==
    /\ lint.stage = "received"
    /\ lint' = [lint EXCEPT !.stage = "linted", !.result = lintPolicy(proc)]
    /\ UNCHANGED proc
    /\ UNCHANGED <<lintVars, mapVars, ctxVars, schemaVars, askVars, parseVars, verVars, stripVars, pubVars, policyVars, fsVars, storeVars, panelVars, shareVars>>

\* reply.send({success: true, ...}) or the catch's reply.code(500)
SendLintReply ==
    /\ lint.stage = "linted"
    /\ lint' = [lint EXCEPT
                  !.stage = "replied",
                  !.reply = IF lint.result.thrown
                            THEN [status |-> 500, success |-> FALSE, diagnostics |-> <<>>,
                                  violationCount |-> 0]
                            ELSE [status |-> 200, success |-> TRUE,
                                  diagnostics |-> mapToDiagnostics(lint.result.violations),
                                  violationCount |-> Len(lint.result.violations)]]
    /\ UNCHANGED proc
    /\ UNCHANGED <<lintVars, mapVars, ctxVars, schemaVars, askVars, parseVars, verVars, stripVars, pubVars, policyVars, fsVars, storeVars, panelVars, shareVars>>

NextRegal == RunLintPolicy \/ SendLintReply

SpecRegal == InitRegal /\ [][NextRegal]_vars

\* ---- the two cases of the claim, read off the process's output
ReportsParseError == proc.stdout = <<>> /\ proc.stderr # <<>>
PrintsNonJson == proc.stdout # <<>> /\ ~JsonParse(proc.stdout).ok

\* C23: when the linter reports a parse error (stderr only) or prints
\* non-JSON output, lintPolicy returns no violations and a non-null
\* parseError without throwing, and the route answers success with zero
\* diagnostics
C23_ParseErrorIsEmptyResult ==
    (ReportsParseError \/ PrintsNonJson) =>
        /\ lint.stage # "received" =>
              /\ ~lint.result.thrown
              /\ lint.result.violations = <<>>
              /\ ~lint.result.parseErrorNull /\ lint.result.parseError # <<>>
        /\ lint.stage = "replied" =>
              /\ lint.reply.success /\ lint.reply.status = 200
              /\ lint.reply.diagnostics = <<>> /\ lint.reply.violationCount = 0

\* regal exits with 1 and "1:2: e" on stderr; the route has answered
C23_Witness ==
    /\ proc = ProcOutcome(1, <<>>, <<"1", ":", "2", ":", " ", "e">>)
    /\ lint.stage = "replied"
    /\ lint.result.parseError = <<"e">>
    /\ lint.reply.success

----------------------------------------------------------------------------
(* backend: stripJsonComments and POST /evaluate (routes/data-sources.js)    *)

MaxJsonc == 11

Quotes == {"\"", "'"}

\* index after a // comment: the line's \n, or the end
RECURSIVE SkipLine(_, _)
SkipLine(s, i) == IF i <= Len(s) /\ s[i] # NL THEN SkipLine(s, i + 1) ELSE i
\* index of the closing */ of a block comment, or the last index
RECURSIVE SkipBlock(_, _)
SkipBlock(s, i) ==
    IF i < Len(s) /\ ~(s[i] = "*" /\ s[i + 1] = "/") THEN SkipBlock(s, i + 1) ELSE i

\* the while loop of stripJsonComments; i counts from 1
RECURSIVE StripScan(_, _, _, _, _)
StripScan(s, i, inString, stringChar, result) ==
    IF i > Len(s) THEN result
    ELSE IF s[i] \in Quotes /\ (i = 1 \/ s[i - 1] # "\\")
    THEN StripScan(s, i + 1,
                   IF ~inString THEN TRUE ELSE IF s[i] = stringChar THEN FALSE ELSE TRUE,
                   IF ~inString THEN s[i] ELSE stringChar,
                   Append(result, s[i]))
    ELSE IF inString THEN StripScan(s, i + 1, inString, stringChar, Append(result, s[i]))
    ELSE IF s[i] = "/" /\ i < Len(s) /\ s[i + 1] = "/"
    THEN StripScan(s, SkipLine(s, i), inString, stringChar, result)
    ELSE IF s[i] = "/" /\ i < Len(s) /\ s[i + 1] = "*"
    THEN StripScan(s, SkipBlock(s, i + 2) + 2, inString, stringChar, result)
    ELSE StripScan(s, i + 1, inString, stringChar, Append(result, s[i]))

stripJsonComments(s) == IF s = <<>> THEN s ELSE StripScan(s, 1, FALSE, "", <<>>)

JsoncSeeds == {<<>>, <<"[">>}
JsoncFragments ==
    {<<"]">>, <<",">>, <<"\"", "\\", "\\", "\"">>, <<"\"", "/", "/", "\"">>, <<"\"", "/", "*", "a", "*", "/", "\"">>, <<"/", "/", "c", NL>>, <<"/", "*", "c", "*", "/">>}
NotSent == <<"?">>

InitStrip ==
    /\ now = AtRest /\ doc = AtRest /\ docVer = AtRest /\ lintTime = AtRest
    /\ set = AtRest /\ timeout = AtRest /\ calls = AtRest /\ nextCall = AtRest
    /\ markers = AtRest /\ lintDiagnostics = AtRest /\ hist = AtRest /\ mapDoc = AtRest
    /\ mapViolations = AtRest /\ mapOut = AtRest /\ inputBuf = AtRest /\ dataBuf = AtRest
    /\ settings = AtRest /\ viewField = AtRest /\ text = AtRest /\ typed = AtRest
    /\ dataContext = AtRest /\ schemaOut = AtRest /\ ask = AtRest /\ answer = AtRest
    /\ tokens = AtRest /\ tree = AtRest /\ files = AtRest /\ run = AtRest
    /\ proc = AtRest /\ lint = AtRest
    /\ gh = AtRest /\ pub = AtRest
    /\ selected = AtRest /\ loading = AtRest /\ activePolicyContent = AtRest /\ stored = AtRest
    /\ docs = AtRest /\ renamed = AtRest
    /\ touched = AtRest
    /\ dataPanel = AtRest /\ inserted = AtRest
    /\ dateNow = AtRest /\ shares = AtRest /\ got = AtRest
    /\ jsonc \in JsoncSeeds
    /\ clean = NotSent

\* the user types on in the Data editor
TypeJsonc ==
    /\ clean = NotSent
    /\ \E f \in JsoncFragments : Len(jsonc) + Len(f) <= MaxJsonc /\ jsonc' = jsonc \o f
    /\ UNCHANGED clean
    /\ UNCHANGED <<lintVars, mapVars, ctxVars, schemaVars, askVars, parseVars, verVars, regalVars, pubVars, policyVars, fsVars, storeVars, panelVars, shareVars>>

\* POST /evaluate: const cleanData = stripJsonComments(data)
Evaluate ==
    /\ clean = NotSent
    /\ clean' = stripJsonComments(jsonc)
    /\ UNCHANGED jsonc
    /\ UNCHANGED <<lintVars, mapVars, ctxVars, schemaVars, askVars, parseVars, verVars, regalVars, pubVars, policyVars, fsVars, storeVars, panelVars, shareVars>>

NextStrip == TypeJsonc \/ Evaluate

SpecStrip == InitStrip /\ [][NextStrip]_vars

\* C24: a text that is JSON as it stands, and so has no comment outside a
\* string, leaves stripJsonComments unchanged
C24_JsonLeftAlone ==
    (clean # NotSent /\ JsonParse(jsonc).ok) => clean = jsonc

----------------------------------------------------------------------------
(* backend: POST /publish (routes/data-sources.js), the six steps against    *)
(* the GitHub API.  The blob requests of step 3 run concurrently under       *)
(* Promise.all; a request still in flight when the handler has replied is    *)
(* answered by GitHub all the same.                                          *)

MaxFiles == 3

PublishFiles == 1..MaxFiles
\* a response that is ok, one that is not (statusText), and a fetch that throws
Responses == {"ok", "Forbidden", "throw"}

BlobNeverRejected(r) == FALSE
\* if (!blobResponse.ok) throw new Error(...), or the fetch itself throwing
BlobRejected(r) == r # "ok"
\* Promise.all resolves once every callback has resolved
AllResolved(blobs) == \A f \in DOMAIN blobs : blobs[f] = "resolved"

NoPublishReply == [status |-> 0, success |-> FALSE]
PublishReply(status, success) == [status |-> status, success |-> success]
\* the catch block, and the 404 answer of step 1
Failed(p, step, status, r) ==
    [p EXCEPT !.step = "replied", !.failedAt = step, !.error = r,
              !.reply = PublishReply(status, FALSE)]

InitPublish ==
    /\ now = AtRest /\ doc = AtRest /\ docVer = AtRest /\ lintTime = AtRest
    /\ set = AtRest /\ timeout = AtRest /\ calls = AtRest /\ nextCall = AtRest
    /\ markers = AtRest /\ lintDiagnostics = AtRest /\ hist = AtRest /\ mapDoc = AtRest
    /\ mapViolations = AtRest /\ mapOut = AtRest /\ inputBuf = AtRest /\ dataBuf = AtRest
    /\ settings = AtRest /\ viewField = AtRest /\ text = AtRest /\ typed = AtRest
    /\ dataContext = AtRest /\ schemaOut = AtRest /\ ask = AtRest /\ answer = AtRest
    /\ tokens = AtRest /\ tree = AtRest /\ files = AtRest /\ run = AtRest
    /\ proc = AtRest /\ lint = AtRest /\ jsonc = AtRest /\ clean = AtRest
    /\ selected = AtRest /\ loading = AtRest /\ activePolicyContent = AtRest /\ stored = AtRest
    /\ docs = AtRest /\ renamed = AtRest
    /\ touched = AtRest
    /\ dataPanel = AtRest /\ inserted = AtRest
    /\ dateNow = AtRest /\ shares = AtRest /\ got = AtRest
    /\ gh = [blobs |-> {}, tree |-> FALSE, commit |-> FALSE, ref |-> FALSE, log |-> <<>>]
    /\ \E n \in 0..MaxFiles :
          pub = [step |-> "ref", blobs |-> [f \in 1..n |-> "pending"], failedAt |-> "none",
                 error |-> "", reply |-> NoPublishReply]

\* 1. Get the latest commit SHA for the branch
GetRef ==
    /\ pub.step = "ref"
    /\ \E r \in Responses \cup {"404"} :
          pub' = CASE r = "ok" -> [pub EXCEPT !.step = "commit"]
                   [] r = "404" -> Failed(pub, "ref", 404, r)
                   [] OTHER -> Failed(pub, "ref", 500, r)
    /\ UNCHANGED gh
    /\ UNCHANGED <<lintVars, mapVars, ctxVars, schemaVars, askVars, parseVars, verVars, regalVars, stripVars, policyVars, fsVars, storeVars, panelVars, shareVars>>

\* 2. Get the tree SHA from the latest commit; on success the blob requests
\* of step 3 are all sent
GetCommit ==
    /\ pub.step = "commit"
    /\ \E r \in Responses :
          pub' = IF r = "ok"
                 THEN [pub EXCEPT !.step = IF AllResolved(pub.blobs) THEN "tree" ELSE "blobs"]
                 ELSE Failed(pub, "commit", 500, r)
    /\ UNCHANGED gh
    /\ UNCHANGED <<lintVars, mapVars, ctxVars, schemaVars, askVars, parseVars, verVars, regalVars, stripVars, policyVars, fsVars, storeVars, panelVars, shareVars>>

\* 3. one blob request is answered; Promise.all rejects on the first failure
\* and resolves on the last success
BlobResponds ==
    /\ pub.step \in {"blobs", "replied"}
    /\ pub.failedAt \in {"none", "blobs"}
    /\ \E f \in DOMAIN pub.blobs, r \in Responses :
          /\ pub.blobs[f] = "pending"
          /\ LET blobs == [pub.blobs EXCEPT ![f] = IF BlobRejected(r) THEN "rejected" ELSE "resolved"]
                 answered == [pub EXCEPT !.blobs = blobs]
             IN  /\ pub' = IF pub.step = "replied" THEN answered
                           ELSE IF BlobRejected(r) THEN Failed(answered, "blobs", 500, r)
                           ELSE IF AllResolved(blobs) THEN [answered EXCEPT !.step = "tree"]
                           ELSE answered
                 /\ gh' = IF r = "ok"
                          THEN [gh EXCEPT !.blobs = @ \cup {f}, !.log = Append(@, "blob")]
                          ELSE gh
    /\ UNCHANGED <<lintVars, mapVars, ctxVars, schemaVars, askVars, parseVars, verVars, regalVars, stripVars, policyVars, fsVars, storeVars, panelVars, shareVars>>

\* 4. Create a new tree
CreateTree ==
    /\ pub.step = "tree"
    /\ \E r \in Responses :
          /\ pub' = IF r = "ok" THEN [pub EXCEPT !.step = "newcommit"] ELSE Failed(pub, "tree", 500, r)
          /\ gh' = IF r = "ok" THEN [gh EXCEPT !.tree = TRUE, !.log = Append(@, "tree")] ELSE gh
    /\ UNCHANGED <<lintVars, mapVars, ctxVars, schemaVars, askVars, parseVars, verVars, regalVars, stripVars, policyVars, fsVars, storeVars, panelVars, shareVars>>

\* 5. Create a new commit
CreateCommit ==
    /\ pub.step = "newcommit"
    /\ \E r \in Responses :
          /\ pub' = IF r = "ok" THEN [pub EXCEPT !.step = "update"] ELSE Failed(pub, "newcommit", 500, r)
          /\ gh' = IF r = "ok" THEN [gh EXCEPT !.commit = TRUE, !.log = Append(@, "commit")] ELSE gh
    /\ UNCHANGED <<lintVars, mapVars, ctxVars, schemaVars, askVars, parseVars, verVars, regalVars, stripVars, policyVars, fsVars, storeVars, panelVars, shareVars>>

\* 6. Update the branch reference, and the reply
UpdateRef ==
    /\ pub.step = "update"
    /\ \E r \in Responses :
          /\ pub' = IF r = "ok"
                    THEN [pub EXCEPT !.step = "replied", !.reply = PublishReply(200, TRUE)]
                    ELSE Failed(pub, "update", 500, r)
          /\ gh' = IF r = "ok" THEN [gh EXCEPT !.ref = TRUE, !.log = Append(@, "ref")] ELSE gh
    /\ UNCHANGED <<lintVars, mapVars, ctxVars, schemaVars, askVars, parseVars, verVars, regalVars, stripVars, policyVars, fsVars, storeVars, panelVars, shareVars>>

NextPublish == GetRef \/ GetCommit \/ BlobResponds \/ CreateTree \/ CreateCommit \/ UpdateRef

SpecPublish == InitPublish /\ [][NextPublish]_vars

\* ---- the order of the objects GitHub has created
Position(kind) == {i \in DOMAIN gh.log : gh.log[i] = kind}
Before(a, b) == \A i \in Position(a), j \in Position(b) : i < j

\* C25: the branch reference is updated only after a blob for every file, the
\* tree and the commit have been created, in that order; once an earlier step
\* has failed the reference is never updated and the reply says success: false
C25_RefUpdatedLast ==
    /\ gh.ref =>
          /\ gh.blobs = DOMAIN pub.blobs /\ gh.tree /\ gh.commit
          /\ Before("blob", "tree") /\ Before("tree", "commit") /\ Before("commit", "ref")
          /\ Cardinality(Position("ref")) = 1
    /\ pub.failedAt # "none" =>
          /\ ~gh.ref
          /\ pub.step = "replied" /\ ~pub.reply.success
    /\ pub.reply.success => gh.ref

\* three files published: the reference moved after the blobs, the tree and the commit
C25_Witness ==
    /\ gh.ref /\ pub.reply.success
    /\ gh.log = <<"blob", "blob", "blob", "tree", "commit", "ref">>

----------------------------------------------------------------------------
(* frontend: the selection effect of app/page.tsx over loadPolicy and        *)
(* savePolicy of components/files-list.tsx and the header's handleSave.      *)
(* Files are told apart by the policy they were written for.                 *)

MaxSelects == 3

PolicyIds == {"policy-1", "policy-2"}
Placeholder == "// Select a policy to edit"

\* the last save: for which policy, with whose files, and whether every load
\* had resolved by then, the one for the selection with files
NoSave == [id |-> "", files |-> "", was |-> "", settled |-> FALSE]

InitPolicies ==
    /\ now = AtRest /\ doc = AtRest /\ docVer = AtRest /\ lintTime = AtRest
    /\ set = AtRest /\ timeout = AtRest /\ calls = AtRest /\ nextCall = AtRest
    /\ markers = AtRest /\ lintDiagnostics = AtRest /\ hist = AtRest /\ mapDoc = AtRest
    /\ mapViolations = AtRest /\ mapOut = AtRest /\ inputBuf = AtRest /\ dataBuf = AtRest
    /\ settings = AtRest /\ viewField = AtRest /\ text = AtRest /\ typed = AtRest
    /\ dataContext = AtRest /\ schemaOut = AtRest /\ ask = AtRest /\ answer = AtRest
    /\ tokens = AtRest /\ tree = AtRest /\ files = AtRest /\ run = AtRest
    /\ proc = AtRest /\ lint = AtRest /\ jsonc = AtRest /\ clean = AtRest
    /\ gh = AtRest /\ pub = AtRest
    /\ docs = AtRest /\ renamed = AtRest
    /\ touched = AtRest
    /\ dataPanel = AtRest /\ inserted = AtRest
    /\ dateNow = AtRest /\ shares = AtRest /\ got = AtRest
    /\ selected = [id |-> "", count |-> 0, loaded |-> 0, saved |-> NoSave]
    /\ loading = {}
    /\ activePolicyContent = Placeholder
    /\ stored = [p \in PolicyIds |-> p]

\* setSelected(id), then the effect: loadPolicy(selected).then(...)
SelectPolicy ==
    /\ selected.count < MaxSelects
    /\ \E id \in PolicyIds :
          /\ id # selected.id
          /\ selected' = [selected EXCEPT !.id = id, !.count = @ + 1]
          /\ loading' = loading \cup {[id |-> id, count |-> selected.count + 1]}
    /\ UNCHANGED <<activePolicyContent, stored>>
    /\ UNCHANGED <<lintVars, mapVars, ctxVars, schemaVars, askVars, parseVars, verVars, regalVars, stripVars, pubVars, fsVars, storeVars, panelVars, shareVars>>

\* a GET /policies/:id answers: files, or null when the request failed
LoadResolves ==
    /\ \E l \in loading, ok \in BOOLEAN :
          /\ loading' = loading \ {l}
          /\ activePolicyContent' = IF ok THEN stored[l.id] ELSE activePolicyContent
          /\ selected' = IF ok /\ l.count = selected.count
                         THEN [selected EXCEPT !.loaded = l.count] ELSE selected
    /\ UNCHANGED stored
    /\ UNCHANGED <<lintVars, mapVars, ctxVars, schemaVars, askVars, parseVars, verVars, regalVars, stripVars, pubVars, fsVars, storeVars, panelVars, shareVars>>

\* handleSave: savePolicy(selected, activePolicyContent)
Save ==
    /\ selected.id # ""
    /\ stored[selected.id] # activePolicyContent
    /\ stored' = [stored EXCEPT ![selected.id] = activePolicyContent]
    /\ selected' = [selected EXCEPT
                      !.saved = [id |-> selected.id, files |-> activePolicyContent,
                                 was |-> stored[selected.id],
                                 settled |-> loading = {} /\ selected.loaded = selected.count]]
    /\ UNCHANGED <<loading, activePolicyContent>>
    /\ UNCHANGED <<lintVars, mapVars, ctxVars, schemaVars, askVars, parseVars, verVars, regalVars, stripVars, pubVars, fsVars, storeVars, panelVars, shareVars>>

NextPolicies == SelectPolicy \/ LoadResolves \/ Save

SpecPolicies == InitPolicies /\ [][NextPolicies]_vars

\* C26: once every loadPolicy call has resolved and the one for the current
\* selection brought files, the content shown is the selected policy's, and
\* a save made then stores the selected policy's own files
C26_ContentIsSelectedPolicy ==
    /\ (loading = {} /\ selected.loaded = selected.count /\ selected.count > 0)
          => activePolicyContent = stored[selected.id]
    /\ selected.saved.settled => selected.saved.files = selected.saved.was

----------------------------------------------------------------------------
(* frontend: lib/firestore-service.ts, the policies collection of one user.  *)
(* A document is told by its files and its name; setDoc replaces both, with  *)
(* or without merge, since savePolicy always passes every file and a name.   *)

DocIds == {"a", "b", "c"}
FileTexts == {"p1", "p2"}

NoDoc == [exists |-> FALSE, files |-> "", name |-> ""]
Doc(data, name) == [exists |-> TRUE, files |-> data, name |-> name]

\* getPolicy: the document, or null
getPolicy(store, policyId) == store[policyId]

\* savePolicy: setDoc on the document of policyId, merged into an existing one
savePolicy(store, policyId, data, name) ==
    [store EXCEPT ![policyId] = Doc(data, IF name = "" THEN policyId ELSE name)]

\* deletePolicy: deleteDoc
deletePolicy(store, policyId) == [store EXCEPT ![policyId] = NoDoc]

\* renamePolicy after its null check: save under newId, then delete oldId
renamePolicy(store, oldId, newId) ==
    deletePolicy(savePolicy(store, newId, getPolicy(store, oldId).files, newId), oldId)

\* the policies the user has stored at the start
Existing == {"a", "b"}

NoRename == [done |-> FALSE, ok |-> FALSE, oldId |-> "", newId |-> "",
             before |-> [p \in DocIds |-> NoDoc]]

InitFirestore ==
    /\ now = AtRest /\ doc = AtRest /\ docVer = AtRest /\ lintTime = AtRest
    /\ set = AtRest /\ timeout = AtRest /\ calls = AtRest /\ nextCall = AtRest
    /\ markers = AtRest /\ lintDiagnostics = AtRest /\ hist = AtRest /\ mapDoc = AtRest
    /\ mapViolations = AtRest /\ mapOut = AtRest /\ inputBuf = AtRest /\ dataBuf = AtRest
    /\ settings = AtRest /\ viewField = AtRest /\ text = AtRest /\ typed = AtRest
    /\ dataContext = AtRest /\ schemaOut = AtRest /\ ask = AtRest /\ answer = AtRest
    /\ tokens = AtRest /\ tree = AtRest /\ files = AtRest /\ run = AtRest
    /\ proc = AtRest /\ lint = AtRest /\ jsonc = AtRest /\ clean = AtRest
    /\ gh = AtRest /\ pub = AtRest /\ selected = AtRest /\ loading = AtRest
    /\ activePolicyContent = AtRest /\ stored = AtRest
    /\ touched = AtRest
    /\ dataPanel = AtRest /\ inserted = AtRest
    /\ dateNow = AtRest /\ shares = AtRest /\ got = AtRest
    /\ docs = [p \in DocIds |-> IF p \in Existing THEN Doc("p1", p) ELSE NoDoc]
    /\ renamed = NoRename

SavePolicyDoc ==
    /\ \E p \in DocIds, f \in FileTexts : docs' = savePolicy(docs, p, f, "")
    /\ renamed' = NoRename
    /\ UNCHANGED <<lintVars, mapVars, ctxVars, schemaVars, askVars, parseVars, verVars, regalVars, stripVars, pubVars, policyVars, storeVars, panelVars, shareVars>>

DeletePolicyDoc ==
    /\ \E p \in DocIds : docs[p].exists /\ docs' = deletePolicy(docs, p)
    /\ renamed' = NoRename
    /\ UNCHANGED <<lintVars, mapVars, ctxVars, schemaVars, askVars, parseVars, verVars, regalVars, stripVars, pubVars, policyVars, storeVars, panelVars, shareVars>>

RenamePolicyDoc ==
    /\ \E oldId \in DocIds, newId \in DocIds :
          LET found == getPolicy(docs, oldId).exists IN
          /\ docs' = IF found THEN renamePolicy(docs, oldId, newId) ELSE docs
          /\ renamed' = [done |-> TRUE, ok |-> found, oldId |-> oldId,
                         newId |-> newId, before |-> docs]
    /\ UNCHANGED <<lintVars, mapVars, ctxVars, schemaVars, askVars, parseVars, verVars, regalVars, stripVars, pubVars, policyVars, storeVars, panelVars, shareVars>>

NextFirestore == SavePolicyDoc \/ DeletePolicyDoc \/ RenamePolicyDoc

SpecFirestore == InitFirestore /\ [][NextFirestore]_vars

\* C27: after a successful rename the files oldId held are stored under
\* newId, and every other policy stored before is still stored with its files
C27_RenameKeepsContent ==
    (renamed.done /\ renamed.ok) =>
        /\ docs[renamed.newId].exists
        /\ docs[renamed.newId].files = renamed.before[renamed.oldId].files
        /\ \A p \in DocIds \ {renamed.oldId} :
              renamed.before[p].exists =>
                  docs[p].exists /\ docs[p].files = renamed.before[p].files

----------------------------------------------------------------------------
(* backend: services/storage.service.js behind routes/policies.js.  An id is *)
(* the text of the route parameter after decoding; a path is the sequence of *)
(* its segments below the root.                                              *)

MaxId == 4

\* path.join(process.cwd(), 'data', 'policies')
STORAGE_DIR == <<<<"a", "p", "p">>, <<"d", "a", "t", "a">>,
                 <<"p", "o", "l", "i", "c", "i", "e", "s">>>>

IdChars == {".", "/", "p"}
Ids == UNION {[1..n -> IdChars] : n \in 1..MaxId}

RECURSIVE PathSegments(_, _, _)
\* the segments of a text between its separators
PathSegments(s, i, seg) ==
    IF i > Len(s) THEN <<seg>>
    ELSE IF s[i] = "/" THEN <<seg>> \o PathSegments(s, i + 1, <<>>)
    ELSE PathSegments(s, i + 1, Append(seg, s[i]))

RECURSIVE Normalize(_, _, _)
\* path.normalize of an absolute path: empty and '.' segments go, '..' steps up
Normalize(segs, i, out) ==
    IF i > Len(segs) THEN out
    ELSE IF segs[i] = <<>> \/ segs[i] = <<".">> THEN Normalize(segs, i + 1, out)
    ELSE IF segs[i] = <<".", ".">>
         THEN Normalize(segs, i + 1, IF out = <<>> THEN out ELSE SubSeq(out, 1, Len(out) - 1))
    ELSE Normalize(segs, i + 1, Append(out, segs[i]))

\* path.join(dir, id)
PathJoin(dir, id) == Normalize(PathSegments(id, 1, <<>>), 1, dir)

File(dir, name) == Append(dir, name)

PolicyFiles(dir) ==
    {File(dir, <<"p", "o", "l", "i", "c", "y", ".", "r", "e", "g", "o">>),
     File(dir, <<"i", "n", "p", "u", "t", ".", "j", "s", "o", "n">>),
     File(dir, <<"d", "a", "t", "a", ".", "j", "s", "o", "n">>),
     File(dir, <<"t", "e", "s", "t", ".", "r", "e", "g", "o">>)}

\* the paths each storage function hands to fs or to the archiver
storage_savePolicy(id) ==
    LET policyDir == PathJoin(STORAGE_DIR, id) IN {STORAGE_DIR, policyDir} \cup PolicyFiles(policyDir)
storage_getPolicy(id) == PolicyFiles(PathJoin(STORAGE_DIR, id))
storage_deletePolicy(id) == {PathJoin(STORAGE_DIR, id)}
storage_renamePolicy(oldId, newId, taken) ==
    IF taken THEN {PathJoin(STORAGE_DIR, newId)}
    ELSE {PathJoin(STORAGE_DIR, oldId), PathJoin(STORAGE_DIR, newId)}
storage_downloadPolicyAsZip(id) == PolicyFiles(PathJoin(STORAGE_DIR, id))

NoRequest == [op |-> "", id |-> <<>>, newId |-> <<>>, paths |-> {}]

InitStorage ==
    /\ now = AtRest /\ doc = AtRest /\ docVer = AtRest /\ lintTime = AtRest
    /\ set = AtRest /\ timeout = AtRest /\ calls = AtRest /\ nextCall = AtRest
    /\ markers = AtRest /\ lintDiagnostics = AtRest /\ hist = AtRest /\ mapDoc = AtRest
    /\ mapViolations = AtRest /\ mapOut = AtRest /\ inputBuf = AtRest /\ dataBuf = AtRest
    /\ settings = AtRest /\ viewField = AtRest /\ text = AtRest /\ typed = AtRest
    /\ dataContext = AtRest /\ schemaOut = AtRest /\ ask = AtRest /\ answer = AtRest
    /\ tokens = AtRest /\ tree = AtRest /\ files = AtRest /\ run = AtRest
    /\ proc = AtRest /\ lint = AtRest /\ jsonc = AtRest /\ clean = AtRest
    /\ gh = AtRest /\ pub = AtRest /\ selected = AtRest /\ loading = AtRest
    /\ activePolicyContent = AtRest /\ stored = AtRest /\ docs = AtRest /\ renamed = AtRest
    /\ dataPanel = AtRest /\ inserted = AtRest
    /\ dateNow = AtRest /\ shares = AtRest /\ got = AtRest
    /\ touched = NoRequest

\* POST /:id
PostPolicy ==
    /\ touched = NoRequest
    /\ \E id \in Ids :
          touched' = [op |-> "save", id |-> id, newId |-> <<>>, paths |-> storage_savePolicy(id)]
    /\ UNCHANGED <<lintVars, mapVars, ctxVars, schemaVars, askVars, parseVars, verVars, regalVars, stripVars, pubVars, policyVars, fsVars, panelVars, shareVars>>

\* GET /:id
GetPolicy ==
    /\ touched = NoRequest
    /\ \E id \in Ids :
          touched' = [op |-> "get", id |-> id, newId |-> <<>>, paths |-> storage_getPolicy(id)]
    /\ UNCHANGED <<lintVars, mapVars, ctxVars, schemaVars, askVars, parseVars, verVars, regalVars, stripVars, pubVars, policyVars, fsVars, panelVars, shareVars>>

\* DELETE /:id
DeletePolicy ==
    /\ touched = NoRequest
    /\ \E id \in Ids :
          touched' = [op |-> "delete", id |-> id, newId |-> <<>>, paths |-> storage_deletePolicy(id)]
    /\ UNCHANGED <<lintVars, mapVars, ctxVars, schemaVars, askVars, parseVars, verVars, regalVars, stripVars, pubVars, policyVars, fsVars, panelVars, shareVars>>

\* POST /:id/rename; newId comes from the body, the route refuses an empty one
RenamePolicy ==
    /\ touched = NoRequest
    /\ \E id \in Ids, newId \in Ids, taken \in BOOLEAN :
          touched' = [op |-> "rename", id |-> id, newId |-> newId,
                      paths |-> storage_renamePolicy(id, newId, taken)]
    /\ UNCHANGED <<lintVars, mapVars, ctxVars, schemaVars, askVars, parseVars, verVars, regalVars, stripVars, pubVars, policyVars, fsVars, panelVars, shareVars>>

\* GET /:id/download
DownloadPolicy ==
    /\ touched = NoRequest
    /\ \E id \in Ids :
          touched' = [op |-> "download", id |-> id, newId |-> <<>>,
                      paths |-> storage_downloadPolicyAsZip(id)]
    /\ UNCHANGED <<lintVars, mapVars, ctxVars, schemaVars, askVars, parseVars, verVars, regalVars, stripVars, pubVars, policyVars, fsVars, panelVars, shareVars>>

\* reply.send: the request is over
SendPolicyReply ==
    /\ touched # NoRequest
    /\ touched' = NoRequest
    /\ UNCHANGED <<lintVars, mapVars, ctxVars, schemaVars, askVars, parseVars, verVars, regalVars, stripVars, pubVars, policyVars, fsVars, panelVars, shareVars>>

NextStorage ==
    \/ PostPolicy \/ GetPolicy \/ DeletePolicy \/ RenamePolicy \/ DownloadPolicy
    \/ SendPolicyReply

SpecStorage == InitStorage /\ [][NextStorage]_vars

\* a path is inside a directory when the directory's segments begin it
Inside(dir, p) == Len(p) >= Len(dir) /\ SubSeq(p, 1, Len(dir)) = dir

\* C28: every path a policy route reads, writes or removes is inside
\* STORAGE_DIR, whatever the id
C28_StaysInStorageDir == \A p \in touched.paths : Inside(STORAGE_DIR, p)

----------------------------------------------------------------------------
(* frontend: components/editor-panels.tsx, handleInsertDataSource.           *)

MaxPieces == 5

RECURSIVE Spaces(_)
Spaces(n) == IF n = 0 THEN <<>> ELSE <<" ">> \o Spaces(n - 1)

RECURSIVE Dashes(_)
Dashes(n) == IF n = 0 THEN <<>> ELSE <<"-">> \o Dashes(n - 1)

\* JSON.stringify(value, null, 2), every line after the first moved right by
\* two spaces for each enclosing level
RECURSIVE StringifyIndented(_, _)
StringifyIndented(value, depth) ==
    CASE value.kind = "array" /\ value.items # <<>> ->
            <<"[", NL>>
            \o Join([i \in 1..Len(value.items) |->
                       Spaces(2 * (depth + 1)) \o StringifyIndented(value.items[i], depth + 1)],
                    <<",", NL>>)
            \o <<NL>> \o Spaces(2 * depth) \o <<"]">>
      [] value.kind = "object" /\ value.members # <<>> ->
            <<"{", NL>>
            \o Join([i \in 1..Len(value.members) |->
                       Spaces(2 * (depth + 1)) \o <<"\"">> \o QuoteChars(value.members[i].key)
                           \o <<"\"", ":", " ">>
                           \o StringifyIndented(value.members[i].val, depth + 1)],
                    <<",", NL>>)
            \o <<NL>> \o Spaces(2 * depth) \o <<"}">>
      [] OTHER -> Stringify(value)

\* Object.keys(value) with value[key], for what JSON.parse can return
Entries(value) ==
    CASE value.kind = "object" -> value.members
      [] value.kind = "array" ->
            [i \in 1..Len(value.items) |-> [key |-> NatToChars(i - 1), val |-> value.items[i]]]
      [] value.kind = "string" ->
            [i \in 1..Len(value.str) |-> [key |-> NatToChars(i - 1), val |-> JStr(<<value.str[i]>>)]]
      [] OTHER -> <<>>

\* data.replace(/\/\/[^\n]*/g, '').replace(/\/\*[\s\S]*?\*\//g, '')
StripForInsert(s) == StripBlockComments(StripLineComments(s, 1), 1)

\* the inner try: JSON.parse(stripped || '{}'), {} when it throws
CurrentData(buf) ==
    LET stripped == StripForInsert(buf)
        r == JsonParse(IF stripped = <<>> THEN <<"{", "}">> ELSE stripped)
    IN  IF r.ok THEN r.val ELSE JObj(<<>>)

\* one line of the output: '  "key": value', a comma when asked, a line break
EntryLine(e, comma) ==
    <<" ", " ", "\"">> \o e.key \o <<"\"", ":", " ">> \o StringifyIndented(e.val, 1)
        \o (IF comma THEN <<",">> ELSE <<>>) \o <<NL>>

RECURSIVE EntryLines(_, _, _)
EntryLines(es, i, lastComma) ==
    IF i > Len(es) THEN <<>>
    ELSE EntryLine(es[i], i < Len(es) \/ lastComma) \o EntryLines(es, i + 1, lastComma)

\* the text handleInsertDataSource puts into the Data buffer
InsertOutput(buf, template) ==
    LET currentData == CurrentData(buf)
        marker == <<"/", "/", " ", "-", "-", "-", "-", " ">> \o template.name
                      \o <<" ", "-", "-", "-", "-">>
        endMarker == <<"/", "/", " ">> \o Dashes(Len(template.name) + 10)
        templateKeys == template.template.members
        otherKeys == SelectSeq(Entries(currentData),
                               LAMBDA e : \A i \in DOMAIN templateKeys : templateKeys[i].key # e.key)
    IN  <<"{", NL>>
        \o EntryLines(otherKeys, 1, templateKeys # <<>>)
        \o (IF otherKeys # <<>> /\ templateKeys # <<>> THEN <<NL>> ELSE <<>>)
        \o (IF templateKeys # <<>>
            THEN <<" ", " ">> \o marker \o <<NL>> \o EntryLines(templateKeys, 1, FALSE)
                 \o <<" ", " ">> \o endMarker \o <<NL>>
            ELSE <<>>)
        \o <<"}">>

\* Object.keys(null) throws and the outer catch leaves the buffer alone
handleInsertDataSource(buf, template) ==
    IF CurrentData(buf).kind = "null" THEN buf ELSE InsertOutput(buf, template)

DataPieces ==
    {<<"{">>, <<"}">>, <<",">>, <<"\"", "a", "\"", ":", "1">>, <<"\"", "u", "\"", ":", "\"", "/", "/", "x", "\"">>,
     <<"\"", "c", "\"", ":", "[", "1", "]">>, <<" ", "/", "/", "n", NL>>, <<"/", "*", "b", "*", "/">>}

Templates ==
    {[name |-> <<"T">>, template |-> JObj(<<[key |-> <<"t">>, val |-> JNum(1)]>>)],
     [name |-> <<"A">>, template |-> JObj(<<[key |-> <<"a">>, val |-> JArr(<<JNum(2)>>)]>>)]}

NotInserted == [done |-> FALSE, before |-> <<>>, template |-> JObj(<<>>)]

InitPanel ==
    /\ now = AtRest /\ doc = AtRest /\ docVer = AtRest /\ lintTime = AtRest
    /\ set = AtRest /\ timeout = AtRest /\ calls = AtRest /\ nextCall = AtRest
    /\ markers = AtRest /\ lintDiagnostics = AtRest /\ hist = AtRest /\ mapDoc = AtRest
    /\ mapViolations = AtRest /\ mapOut = AtRest /\ inputBuf = AtRest /\ dataBuf = AtRest
    /\ settings = AtRest /\ viewField = AtRest /\ text = AtRest /\ typed = AtRest
    /\ dataContext = AtRest /\ schemaOut = AtRest /\ ask = AtRest /\ answer = AtRest
    /\ tokens = AtRest /\ tree = AtRest /\ files = AtRest /\ run = AtRest
    /\ proc = AtRest /\ lint = AtRest /\ jsonc = AtRest /\ clean = AtRest
    /\ gh = AtRest /\ pub = AtRest /\ selected = AtRest /\ loading = AtRest
    /\ activePolicyContent = AtRest /\ stored = AtRest /\ docs = AtRest /\ renamed = AtRest
    /\ touched = AtRest
    /\ dateNow = AtRest /\ shares = AtRest /\ got = AtRest
    /\ dataPanel = [text |-> <<>>, pieces |-> 0]
    /\ inserted = NotInserted

\* the user types into the Data editor
TypeData ==
    /\ ~inserted.done
    /\ dataPanel.pieces < MaxPieces
    /\ \E f \in DataPieces :
          dataPanel' = [text |-> dataPanel.text \o f, pieces |-> dataPanel.pieces + 1]
    /\ UNCHANGED inserted
    /\ UNCHANGED <<lintVars, mapVars, ctxVars, schemaVars, askVars, parseVars, verVars, regalVars, stripVars, pubVars, policyVars, fsVars, storeVars, shareVars>>

\* the user picks a data source
InsertDataSource ==
    /\ \E t \in Templates :
          /\ dataPanel' = [dataPanel EXCEPT !.text = handleInsertDataSource(dataPanel.text, t)]
          /\ inserted' = [done |-> TRUE, before |-> dataPanel.text, template |-> t.template]
    /\ UNCHANGED <<lintVars, mapVars, ctxVars, schemaVars, askVars, parseVars, verVars, regalVars, stripVars, pubVars, policyVars, fsVars, storeVars, shareVars>>

NextPanel == TypeData \/ InsertDataSource

SpecPanel == InitPanel /\ [][NextPanel]_vars

\* JSON with comments, read as an editor reads it: a comment starts outside a
\* string only, and a string ends at its first quote that no backslash escapes
First(indices, otherwise) ==
    IF indices = {} THEN otherwise ELSE CHOOSE j \in indices : \A e \in indices : j <= e

\* the quote at j, in the string opened at `open`, follows an odd run of backslashes
EscapedQuote(s, open, j) ==
    LET runs == {k \in 0..(j - open - 1) : \A m \in (j - k)..(j - 1) : s[m] = "\\"}
    IN  (CHOOSE k \in runs : \A r \in runs : r <= k) % 2 = 1

StringEnd(s, open) ==
    First({j \in (open + 1)..Len(s) : s[j] = "\"" /\ ~EscapedQuote(s, open, j)}, Len(s))

NextMark(s, i) ==
    First({j \in i..Len(s) : s[j] = "\"" \/ StartsWithAt(s, j, <<"/", "/">>)
                                \/ StartsWithAt(s, j, <<"/", "*">>)}, Len(s) + 1)

RECURSIVE Uncommented(_, _)
Uncommented(s, i) ==
    LET m == NextMark(s, i)
    IN  IF m > Len(s) THEN SubSeq(s, i, Len(s))
        ELSE SubSeq(s, i, m - 1) \o
             (CASE s[m] = "\"" ->
                     SubSeq(s, m, StringEnd(s, m)) \o Uncommented(s, StringEnd(s, m) + 1)
                [] StartsWithAt(s, m, <<"/", "/">>) ->
                     Uncommented(s, First({j \in m..Len(s) : s[j] = NL}, Len(s) + 1))
                [] OTHER ->
                     Uncommented(s, First({j \in (m + 2)..Len(s) :
                                             StartsWithAt(s, j, <<"*", "/">>)}, Len(s)) + 2))

JsoncValue(s) == JsonParse(Uncommented(s, 1))

HasEntry(value, e) ==
    value.kind = "object" /\ \E i \in DOMAIN value.members : value.members[i] = e

\* C29: after an insertion into a buffer that was a JSON object with
\* comments, every top-level key of the buffer that is not a key of the
\* template is in the buffer with the value it had
C29_InsertKeepsOtherKeys ==
    (inserted.done /\ JsoncValue(inserted.before).ok
       /\ JsoncValue(inserted.before).val.kind = "object") =>
        /\ JsoncValue(dataPanel.text).ok
        /\ \A i \in DOMAIN JsoncValue(inserted.before).val.members :
              LET e == JsoncValue(inserted.before).val.members[i]
              IN  (\A k \in DOMAIN inserted.template.members :
                       inserted.template.members[k].key # e.key)
                     => HasEntry(JsoncValue(dataPanel.text).val, e)

----------------------------------------------------------------------------
(* frontend: lib/share-service.ts.  Time is counted in hours, the unit of    *)
(* the shortest preset; Timestamp.fromDate and toDate keep a Date's          *)
(* milliseconds, so a share's expiresAt is read back as it was written.      *)

MaxAdvances == 4

ShareExpirationPreset == {"1h", "1d", "7d", "30d", "never"}
ShareIds == {"s1", "s2"}

NoDate == [isNull |-> TRUE, time |-> 0]
Date(t) == [isNull |-> FALSE, time |-> t]

\* addPresetToDate(now, preset): null for "never"
addPresetToDate(t, preset) ==
    CASE preset = "1h" -> Date(t + 1)
      [] preset = "1d" -> Date(t + 24)
      [] preset = "7d" -> Date(t + 7 * 24)
      [] preset = "30d" -> Date(t + 30 * 24)
      [] OTHER -> NoDate

\* a document of the collection, with the preset it was created with
NoShare == [exists |-> FALSE, preset |-> "", expiresAt |-> NoDate]

\* expired only once the expiry time has passed
ExpiredAfter(expiresAt, t) == ~expiresAt.isNull /\ expiresAt.time < t

\* expiresAt && expiresAt.getTime() <= Date.now()
Expired(expiresAt, t) == ~expiresAt.isNull /\ expiresAt.time <= t

\* getShare: what it throws, or "files" when it returns the share
getShare(store, shareId, t) ==
    IF ~store[shareId].exists THEN "Share not found"
    ELSE IF Expired(store[shareId].expiresAt, t) THEN "Share expired"
    ELSE "files"

NoGet == [done |-> FALSE, id |-> "", outcome |-> ""]

\* the steps of the clock: an hour, and what is left of a day, a week and
\* thirty days after the shorter presets
Advances == {1, 23, 6 * 24, 23 * 24}

InitShare ==
    /\ now = AtRest /\ doc = AtRest /\ docVer = AtRest /\ lintTime = AtRest
    /\ set = AtRest /\ timeout = AtRest /\ calls = AtRest /\ nextCall = AtRest
    /\ markers = AtRest /\ lintDiagnostics = AtRest /\ hist = AtRest /\ mapDoc = AtRest
    /\ mapViolations = AtRest /\ mapOut = AtRest /\ inputBuf = AtRest /\ dataBuf = AtRest
    /\ settings = AtRest /\ viewField = AtRest /\ text = AtRest /\ typed = AtRest
    /\ dataContext = AtRest /\ schemaOut = AtRest /\ ask = AtRest /\ answer = AtRest
    /\ tokens = AtRest /\ tree = AtRest /\ files = AtRest /\ run = AtRest
    /\ proc = AtRest /\ lint = AtRest /\ jsonc = AtRest /\ clean = AtRest
    /\ gh = AtRest /\ pub = AtRest /\ selected = AtRest /\ loading = AtRest
    /\ activePolicyContent = AtRest /\ stored = AtRest /\ docs = AtRest /\ renamed = AtRest
    /\ touched = AtRest /\ dataPanel = AtRest /\ inserted = AtRest
    /\ dateNow = [time |-> 0, advances |-> 0]
    /\ shares = [s \in ShareIds |-> NoShare]
    /\ got = NoGet

AdvanceClock ==
    /\ dateNow.advances < MaxAdvances
    /\ \E d \in Advances : dateNow' = [time |-> dateNow.time + d, advances |-> dateNow.advances + 1]
    /\ got' = NoGet
    /\ UNCHANGED shares
    /\ UNCHANGED <<lintVars, mapVars, ctxVars, schemaVars, askVars, parseVars, verVars, regalVars, stripVars, pubVars, policyVars, fsVars, storeVars, panelVars>>

\* createShareForPolicy: a new document with a fresh id
CreateShare ==
    /\ \E s \in ShareIds, preset \in ShareExpirationPreset :
          /\ ~shares[s].exists
          /\ shares' = [shares EXCEPT ![s] = [exists |-> TRUE, preset |-> preset,
                                              expiresAt |-> addPresetToDate(dateNow.time, preset)]]
    /\ got' = NoGet
    /\ UNCHANGED dateNow
    /\ UNCHANGED <<lintVars, mapVars, ctxVars, schemaVars, askVars, parseVars, verVars, regalVars, stripVars, pubVars, policyVars, fsVars, storeVars, panelVars>>

GetShare ==
    /\ \E s \in ShareIds :
          got' = [done |-> TRUE, id |-> s, outcome |-> getShare(shares, s, dateNow.time)]
    /\ UNCHANGED <<dateNow, shares>>
    /\ UNCHANGED <<lintVars, mapVars, ctxVars, schemaVars, askVars, parseVars, verVars, regalVars, stripVars, pubVars, policyVars, fsVars, storeVars, panelVars>>

NextShare == AdvanceClock \/ CreateShare \/ GetShare

SpecShare == InitShare /\ [][NextShare]_vars

\* C30: getShare of a share whose expiresAt is at or before the current time
\* fails with "Share expired", and a share without expiry is always returned
C30_ExpiredShareNotReturned ==
    (got.done /\ shares[got.id].exists) =>
        LET expiresAt == shares[got.id].expiresAt
        IN  /\ (~expiresAt.isNull /\ expiresAt.time <= dateNow.time) => got.outcome = "Share expired"
            /\ expiresAt.isNull => got.outcome = "files"
            /\ shares[got.id].preset = "never" <=> expiresAt.isNull

\* a share is asked for at the very hour it expires
C30_Witness ==
    /\ got.done /\ shares[got.id].exists
    /\ ~shares[got.id].expiresAt.isNull
    /\ shares[got.id].expiresAt.time = dateNow.time
    /\ got.outcome = "Share expired"

====
